---- MODULE Spec2Model ----
(***************************************************************************)
(* Neteria: the message-exchange engine of neteria/server.py,              *)
(* neteria/client.py and neteria/core.py as a state machine.               *)
(*                                                                         *)
(* Threads.  Each engine owns a ListenerUDP with a receive thread          *)
(* (listen_loop -> receive_datagram -> handle_message) and a scheduler     *)
(* thread (scheduler -> time_reached -> retransmit).  A handler is one     *)
(* step of the receive thread; a scheduler pass is several steps (wake,    *)
(* one step per visited item, iterator exhausted, slice store), so that    *)
(* handlers interleave with a pass the way the two threads do.             *)
(*                                                                         *)
(* Time.  Deadlines are kept relative to the clock: ts is the number of    *)
(* seconds until the deadline, 0 once it has been reached; Tick advances   *)
(* the clock by one second while the scheduler sleeps.                     *)
(***************************************************************************)
EXTENDS Integers, Sequences, FiniteSets, TLC

(* ------------------------------------------------------------------ *)
(* Parameters and bounds                                               *)
(* ------------------------------------------------------------------ *)

\* max_retries=4, the default of NeteriaServer and NeteriaClient
max_retries == 4

\* NeteriaServer(registration_limit=...): the limit the server is built with
registration_limit == 1

\* timeout=2.0 seconds, the default of NeteriaServer and NeteriaClient
timeout == 2

\* most scheduled calls a caller may have queued before it calls call_later
MaxCalls == 2
MaxInFlight == 1

Cuuids == {"c1", "c2", "c3"}
EventCuuids == {"c1", "c2"}
Addrs == {<<"h1", 1>>, <<"h1", 2>>, <<"h2", 1>>}
ClientEuuids == {"e1"}
NotifyEuuids == {"n1"}
Euuids == ClientEuuids \cup NotifyEuuids
Priorities == {"normal", "high"}
Versions == {"1.0.2", "0.9"}
None == "None"

VARIABLES
    \* ---- NeteriaServer ----
    registry,            \* self.registry: cuuid -> [host, port, encryption]
    encrypted_hosts,     \* self.encrypted_hosts: (host, port) -> cuuid
    server_event_uuids,  \* self.event_uuids: euuid -> retry count
    server_config,       \* [compression, encryption] given to __init__
    server_listener,     \* self.listener: [scheduled_calls, pc, idx, kept]
    minted,              \* euuids uuid1() has returned to notify()
    resends,             \* euuid -> datagrams retransmit has resent for the entry
    \* ---- NeteriaClient ----
    registered,          \* self.registered
    server,              \* self.server: the address OK REGISTER came from
    server_key,          \* self.server_key is set
    autoregistering,     \* self.autoregistering
    discovered_servers,  \* self.discovered_servers: address -> <<version, server_name>>
    client_event_uuids,  \* self.event_uuids: euuid -> packet [priority, retry]
    event_rollbacks,     \* self.event_rollbacks: euuid -> packet
    event_notifies,      \* self.event_notifies: euuid -> event data
    event_confirmations, \* self.event_confirmations: euuid -> packet
    register_retries,    \* self.register_retries
    client_config,       \* [compression, encryption] given to __init__
    client_listener,     \* self.listener: [scheduled_calls, pc, idx, kept]
    client_minted,       \* euuids uuid1() has returned to event()
    register_sends,      \* REGISTER datagrams sent since the last register(retry=True)
    register_first,      \* address of the REGISTER the last register(retry=True) sent
    sends,               \* euuid -> EVENT datagrams the client has sent for it
    \* ---- the network ----
    net,                 \* datagram -> how many copies of it are in flight
    \* ---- observation ----
    out,                 \* datagrams handed to sendto() by the last step
    last                 \* what the last step was

server_vars == <<registry, encrypted_hosts, server_event_uuids, server_config,
                 server_listener, minted, resends>>
client_vars == <<registered, server, server_key, autoregistering,
                 discovered_servers, client_event_uuids, event_rollbacks,
                 event_notifies, event_confirmations, register_retries,
                 client_config, client_listener, client_minted, sends,
                 register_sends, register_first>>
\* What a step of the server, and a step of the client, cannot touch when the
\* network carries nothing between them.
beyond_server == <<client_vars, net>>
beyond_client == <<server_vars, net>>
vars == <<server_vars, client_vars, net, out, last>>

(* ------------------------------------------------------------------ *)
(* Codec (neteria/core.py)                                             *)
(* ------------------------------------------------------------------ *)

\* How a datagram was built by serialize_data: comp = deflate + base64,
\* enc = Encryption.encrypt under the receiver's public key.
Wires == [comp : BOOLEAN, enc : BOOLEAN]
PlainWire == [comp |-> FALSE, enc |-> FALSE]

\* serialize_data(data, compression, encryption, public_key): the layers put
\* around the json text.
serialize_data(compression, encryption, public_key) ==
    [comp |-> compression, enc |-> encryption /\ public_key]

\* Mutant: every datagram decodes.
unserialize_data_lenient(wire, compression, encryption) == {"ok"}

\* unserialize_data(data, compression, encryption): the outcomes for a datagram
\* built as `wire`.  "ok" = the mapping is returned; "False" = the failure
\* value is returned; "raise" = an exception leaves the function (or the value
\* returned is no mapping and the first field access of the caller raises).
unserialize_data(wire, compression, encryption) ==
    LET decrypted == encryption /\ wire.enc
        \* the form of `data` after the decryption stage
        form == IF wire.enc /\ ~decrypted THEN "enclist"
                ELSE IF wire.comp THEN "b64z" ELSE "json"
    IN  IF compression
        THEN IF form = "b64z" THEN {"ok"}
             \* a2b_base64 / decompress fail; data.decode() may fail after them
             ELSE {"False", "raise"}
        ELSE IF encryption
             THEN IF decrypted
                  THEN {"raise"}     \* `message` was never assigned
                  ELSE {"False"}     \* decrypt failed, message = False
             ELSE IF form = "json" THEN {"ok"} ELSE {"raise"}

(* ------------------------------------------------------------------ *)
(* Messages                                                            *)
(* ------------------------------------------------------------------ *)

\* A decoded message; event_data is None unless the message is built with
\* NotifyMsg, server_name unless it is built with OhaiClientMsg.
Msg(method, cuuid, euuid, priority, version, encryption) ==
    [method |-> method, cuuid |-> cuuid, euuid |-> euuid,
     priority |-> priority, version |-> version, encryption |-> encryption,
     event_data |-> None, server_name |-> None]

\* {"method": "OHAI Client", "version": version, "server_name": server_name}
OhaiClientMsg(server_version, name) ==
    [Msg("OHAI Client", None, None, None, server_version, FALSE)
        EXCEPT !.server_name = name]

\* {"method": "NOTIFY", "euuid": euuid, "event_data": event_data}
NotifyMsg(euuid, event_data) ==
    [Msg("NOTIFY", None, euuid, None, None, FALSE) EXCEPT !.event_data = event_data]

\* One datagram handed to sendto(message, address).
Datagram(to, wire, data) == [to |-> to, wire |-> wire, data |-> data]

\* What a step was: the operation, its outcome, the euuid and the priority of
\* the message it was about, whether it called event_legal / started
\* event_execute, and what event_legal did (None when it was not called).
StepAbout(op, res, euuid, priority, hook, exec) ==
    [op |-> op, res |-> res, euuid |-> euuid, priority |-> priority,
     hook |-> hook, exec |-> exec, verdict |-> None]
Adjudicated(res, euuid, priority, verdict, exec) ==
    [StepAbout("EVENT", res, euuid, priority, TRUE, exec) EXCEPT !.verdict = verdict]
StepOn(op, res, euuid, hook, exec) == StepAbout(op, res, euuid, None, hook, exec)
Step(op, res, hook, exec) == StepOn(op, res, None, hook, exec)

\* Dictionaries: d[k] = v and `del d[k]` (a no-op here when k is absent; the
\* callers model the KeyError).
Put(f, k, v) == [x \in DOMAIN f \cup {k} |-> IF x = k THEN v ELSE f[x]]

\* Mutant: `del d[k]` leaves the entry in the dictionary.
Kept(f, k) == f

Del(f, k) == [x \in DOMAIN f \ {k} |-> f[x]]

\* receive_datagram: `if response: self.send_datagram(response, address)`.
Reply(host, wire, data) == <<Datagram(host, wire, data)>>

(* ------------------------------------------------------------------ *)
(* ListenerUDP: the schedule (neteria/core.py)                         *)
(* ------------------------------------------------------------------ *)

\* ListenerUDP.__init__: self.scheduled_calls = []; the scheduler thread is
\* asleep.
NewListener == [scheduled_calls |-> <<>>, pc |-> "sleep", idx |-> 0, kept |-> <<>>]

\* ListenerUDP.call_later: append {'ts': now + time_seconds, 'args': arguments}.
call_later(L, time_seconds, arguments) ==
    [L EXCEPT !.scheduled_calls =
        Append(@, [ts |-> time_seconds, args |-> arguments])]

\* ListenerUDP.time_reached: current_time >= scheduled_call['ts'], with the
\* clock reading as origin.
time_reached(scheduled_call) == 0 >= scheduled_call.ts

\* The clock advances by one second: every deadline comes one second closer.
Elapse(L) ==
    [L EXCEPT !.scheduled_calls =
        [i \in DOMAIN @ |-> [@[i] EXCEPT !.ts = IF @ > 0 THEN @ - 1 ELSE 0]]]

\* The calls that are still to be invoked: all of them while the scheduler
\* sleeps; during a pass the ones the comprehension kept and the ones it has
\* not visited yet; after the iterator is exhausted only the kept ones (the
\* slice store replaces everything else).
PendingCalls(L) ==
    CASE L.pc = "sleep" -> {L.scheduled_calls[i] : i \in DOMAIN L.scheduled_calls}
      [] L.pc = "iter"  -> {L.kept[i] : i \in DOMAIN L.kept} \cup
                           {L.scheduled_calls[i] :
                               i \in {j \in DOMAIN L.scheduled_calls : j >= L.idx}}
      [] L.pc = "store" -> {L.kept[i] : i \in DOMAIN L.kept}

(* ------------------------------------------------------------------ *)
(* NeteriaServer (neteria/server.py)                                   *)
(* ------------------------------------------------------------------ *)

\* NeteriaServer.__init__: self.version, self.allowed_versions = [version]
version == "1.0.2"
allowed_versions == {version}

\* NeteriaServer.__init__(server_name=...): self.server_name
server_name == "neteria"

\* NeteriaServer.is_registered(cuuid, host): host is the IP alone.
is_registered(cuuid, host) ==
    cuuid \in DOMAIN registry /\ registry[cuuid].host = host

\* What a handler leaves alone when it only answers (or not).
ServerUnchanged == UNCHANGED server_vars

\* Mutant: the server welcomes every OHAI, whatever its version.
autodiscover_any_version(message, host) ==
    /\ ServerUnchanged
    /\ out' = Reply(host,
                serialize_data(server_config.compression, FALSE, FALSE),
                OhaiClientMsg(version, server_name))
    /\ last' = Step("OHAI", "OHAI Client", FALSE, FALSE)

\* NeteriaServer.autodiscover(message)
autodiscover(message, host) ==
    /\ ServerUnchanged
    /\ IF message.version \in allowed_versions
       THEN /\ out' = Reply(host,
                        serialize_data(server_config.compression, FALSE, FALSE),
                        OhaiClientMsg(version, server_name))
            /\ last' = Step("OHAI", "OHAI Client", FALSE, FALSE)
       ELSE /\ out' = Reply(host,
                        serialize_data(server_config.compression, FALSE, FALSE),
                        Msg("BYE REGISTER", None, None, None, None, FALSE))
            /\ last' = Step("OHAI", "BYE REGISTER", FALSE, FALSE)

\* Mutant: the admission check compares against the limit plus one.
LimitExceededLate == Cardinality(DOMAIN registry) > registration_limit + 1

\* The admission check of register: len(self.registry) > self.registration_limit
LimitExceeded == Cardinality(DOMAIN registry) > registration_limit

\* NeteriaServer.register(message, host)
register(message, host) ==
    LET cuuid == message.cuuid
        keyed == message.encryption /\ server_config.encryption
    IN  IF LimitExceeded
        THEN /\ ServerUnchanged
             /\ out' = Reply(host,
                         serialize_data(server_config.compression, FALSE, FALSE),
                         Msg("BYE REGISTER", None, None, None, None, FALSE))
             /\ last' = Step("REGISTER", "BYE REGISTER", FALSE, FALSE)
        ELSE /\ encrypted_hosts' = IF keyed THEN Put(encrypted_hosts, host, cuuid)
                                            ELSE encrypted_hosts
             \* an existing entry keeps the keys the new data does not carry
             /\ registry' = Put(registry, cuuid,
                     [host |-> host[1], port |-> host[2],
                      encryption |-> keyed \/ (cuuid \in DOMAIN registry /\
                                               registry[cuuid].encryption)])
             /\ UNCHANGED <<server_event_uuids, server_config, server_listener,
                            minted, resends>>
             /\ out' = Reply(host,
                         serialize_data(server_config.compression, FALSE, FALSE),
                         Msg("OK REGISTER", None, None, None, None, keyed))
             /\ last' = Step("REGISTER", "OK REGISTER", FALSE, FALSE)

\* Mutant: the server does not look the euuid up before it adjudicates.
never_processing(euuid) == FALSE

\* event: `if euuid in self.event_uuids`, the event is already being processed.
already_processing(euuid) == euuid \in DOMAIN server_event_uuids

\* The policy hook's outcomes: event_legal returns True, returns False, or
\* raises.
Verdicts == {"legal", "illegal", "raise"}

\* Mutant: event_execute is started whatever event_legal returned.
executes_always(verdict) == TRUE

\* event: the thread that runs event_execute is started in the branch taken
\* when event_legal returned true.
executes(verdict) == verdict = "legal"

\* NeteriaServer.event(cuuid, host, euuid, event_data, timestamp, priority)
event(message, host, verdict) ==
    LET cuuid == message.cuuid
        euuid == message.euuid
        keyed == host \in DOMAIN encrypted_hosts
    IN  IF keyed /\ ~(cuuid \in DOMAIN registry /\ registry[cuuid].encryption)
        THEN \* self.registry[cuuid]["encryption"] raises KeyError
             /\ ServerUnchanged
             /\ out' = <<>>
             /\ last' = StepOn("EVENT", "KeyError", euuid, FALSE, FALSE)
        ELSE IF ~is_registered(cuuid, host[1])
        THEN /\ ServerUnchanged
             /\ out' = Reply(host,
                         serialize_data(server_config.compression,
                                        server_config.encryption, keyed),
                         Msg("BYE EVENT", None, None, None, None, FALSE))
             /\ last' = StepOn("EVENT", "BYE EVENT", euuid, FALSE, FALSE)
        ELSE IF already_processing(euuid)
        THEN /\ ServerUnchanged
             /\ out' = <<>>
             /\ last' = StepOn("EVENT", "duplicate", euuid, FALSE, FALSE)
        ELSE /\ server_event_uuids' = Put(server_event_uuids, euuid, 0)
             /\ resends' = Put(resends, euuid, 0)
             /\ UNCHANGED <<registry, encrypted_hosts, server_config, minted>>
             /\ IF verdict = "raise"
                THEN \* the exception leaves event() before call_later
                     /\ UNCHANGED server_listener
                     /\ out' = <<>>
                     /\ last' = Adjudicated("hook raised", euuid, message.priority,
                                            verdict, FALSE)
                ELSE LET method == IF verdict = "legal" THEN "LEGAL" ELSE "ILLEGAL"
                         wire == serialize_data(server_config.compression,
                                                server_config.encryption, keyed)
                         response == [wire |-> wire,
                                      data |-> Msg(method, None, euuid,
                                                   message.priority, None, FALSE)]
                     IN  /\ server_listener' =
                               call_later(server_listener, timeout,
                                   [euuid |-> euuid, response |-> response,
                                    cuuid |-> cuuid])
                         /\ out' = Reply(host, response.wire, response.data)
                         /\ last' = Adjudicated(method, euuid, message.priority,
                                                verdict, executes(verdict))

\* Mutant: an acknowledgement of an unknown euuid is answered with BYE EVENT.
confirm_or_complain(message, host) ==
    /\ server_event_uuids' = Del(server_event_uuids, message.euuid)
    /\ resends' = Del(resends, message.euuid)
    /\ UNCHANGED <<registry, encrypted_hosts, server_config, server_listener, minted>>
    /\ out' = IF message.euuid \in DOMAIN server_event_uuids THEN <<>>
              ELSE Reply(host, PlainWire,
                         Msg("BYE EVENT", None, None, None, None, FALSE))
    /\ last' = StepOn(message.method,
                      IF message.euuid \in DOMAIN server_event_uuids
                      THEN "deleted" ELSE "KeyError", message.euuid, FALSE, FALSE)

\* handle_message, "OK EVENT" / "OK NOTIFY": del self.event_uuids[euuid],
\* KeyError logged.
confirm(message, host) ==
    /\ server_event_uuids' = Del(server_event_uuids, message.euuid)
    /\ resends' = Del(resends, message.euuid)
    /\ UNCHANGED <<registry, encrypted_hosts, server_config, server_listener, minted>>
    /\ out' = <<>>
    /\ last' = StepOn(message.method,
                      IF message.euuid \in DOMAIN server_event_uuids
                      THEN "deleted" ELSE "KeyError", message.euuid, FALSE, FALSE)

\* Mutant: the entry is given up one retry early.
retry_limit_reached(retry) == retry >= max_retries

\* Mutant: the entry is kept for one count more.
retry_limit_passed(retry) == retry > max_retries + 1

\* retransmit: `self.event_uuids[euuid] > self.max_retries`, after the increment.
retry_limit_exceeded(retry) == retry > max_retries

\* Mutant: a callback that finds no entry for its euuid schedules itself again.
retransmit_rearms(data, L) ==
    /\ UNCHANGED <<registry, encrypted_hosts, server_config, minted>>
    /\ IF data.euuid \in DOMAIN server_event_uuids
       THEN LET retry == server_event_uuids[data.euuid] + 1
            IN  IF retry > max_retries \/ data.cuuid \notin DOMAIN registry
                THEN /\ server_event_uuids' = Del(server_event_uuids, data.euuid)
                     /\ resends' = Del(resends, data.euuid)
                     /\ server_listener' = L
                     /\ out' = <<>>
                     /\ last' = StepOn("retransmit", "deleted", data.euuid, FALSE, FALSE)
                ELSE /\ server_event_uuids' =
                            Put(server_event_uuids, data.euuid, retry)
                     /\ resends' = Put(resends, data.euuid, resends[data.euuid] + 1)
                     /\ out' = <<Datagram(<<registry[data.cuuid].host,
                                            registry[data.cuuid].port>>,
                                          data.response.wire, data.response.data)>>
                     /\ server_listener' = call_later(L, timeout, data)
                     /\ last' = StepOn("retransmit", "resent", data.euuid, FALSE, FALSE)
       ELSE /\ UNCHANGED <<server_event_uuids, resends>>
            /\ server_listener' = call_later(L, timeout, data)
            /\ out' = <<>>
            /\ last' = StepOn("retransmit", "no entry", data.euuid, FALSE, FALSE)

\* NeteriaServer.retransmit(data), run by the scheduler thread inside
\* time_reached; L is the listener as the callback finds it.
retransmit(data, L) ==
    /\ UNCHANGED <<registry, encrypted_hosts, server_config, minted>>
    /\ IF data.euuid \in DOMAIN server_event_uuids
       THEN LET retry == server_event_uuids[data.euuid] + 1
            IN  IF retry_limit_exceeded(retry) \/ data.cuuid \notin DOMAIN registry
                THEN /\ server_event_uuids' = Del(server_event_uuids, data.euuid)
                     /\ resends' = Del(resends, data.euuid)
                     /\ server_listener' = L
                     /\ out' = <<>>
                     /\ last' = StepOn("retransmit", "deleted", data.euuid, FALSE, FALSE)
                ELSE /\ server_event_uuids' =
                            Put(server_event_uuids, data.euuid, retry)
                     /\ resends' = Put(resends, data.euuid, resends[data.euuid] + 1)
                     /\ out' = <<Datagram(<<registry[data.cuuid].host,
                                            registry[data.cuuid].port>>,
                                          data.response.wire, data.response.data)>>
                     /\ server_listener' = call_later(L, timeout, data)
                     /\ last' = StepOn("retransmit", "resent", data.euuid, FALSE, FALSE)
       ELSE /\ UNCHANGED <<server_event_uuids, resends>>
            /\ server_listener' = L
            /\ out' = <<>>
            /\ last' = StepOn("retransmit", "no entry", data.euuid, FALSE, FALSE)

\* Mutant: notify sends the NOTIFY and records it in flight, and schedules no
\* retransmission.
notify_unscheduled(cuuid, euuid, oversize) ==
    /\ minted' = minted \cup {euuid}
    /\ UNCHANGED <<registry, encrypted_hosts, server_config, server_listener>>
    /\ IF cuuid \notin DOMAIN registry
       THEN /\ UNCHANGED <<server_event_uuids, resends>>
            /\ out' = <<>>
            /\ last' = StepOn("notify", "KeyError", euuid, FALSE, FALSE)
       ELSE /\ server_event_uuids' = Put(server_event_uuids, euuid, 0)
            /\ resends' = Put(resends, euuid, 0)
            /\ out' = IF oversize THEN <<>>
                      ELSE <<Datagram(<<registry[cuuid].host, registry[cuuid].port>>,
                                 serialize_data(server_config.compression,
                                                server_config.encryption,
                                                registry[cuuid].encryption),
                                 Msg("NOTIFY", None, euuid, None, None, FALSE))>>
            /\ last' = StepOn("notify", IF oversize THEN "too large" ELSE "sent",
                              euuid, FALSE, FALSE)

\* NeteriaServer.notify(cuuid, event_data), called by the application;
\* oversize: the NOTIFY datagram is longer than the listener's bufsize.
notify(cuuid, euuid, oversize) ==
    /\ minted' = minted \cup {euuid}
    /\ UNCHANGED <<registry, encrypted_hosts, server_config>>
    /\ IF cuuid \notin DOMAIN registry
       THEN \* self.registry[cuuid] raises KeyError to the caller
            /\ UNCHANGED <<server_event_uuids, resends, server_listener>>
            /\ out' = <<>>
            /\ last' = StepOn("notify", "KeyError", euuid, FALSE, FALSE)
       ELSE LET wire == serialize_data(server_config.compression,
                                       server_config.encryption,
                                       registry[cuuid].encryption)
                packet == [wire |-> wire,
                           data |-> Msg("NOTIFY", None, euuid, None, None, FALSE)]
                address == <<registry[cuuid].host, registry[cuuid].port>>
            IN  /\ server_event_uuids' = Put(server_event_uuids, euuid, 0)
                /\ resends' = Put(resends, euuid, 0)
                /\ IF oversize
                   THEN \* send_datagram raises before call_later
                        /\ UNCHANGED server_listener
                        /\ out' = <<>>
                        /\ last' = StepOn("notify", "too large", euuid, FALSE, FALSE)
                   ELSE /\ out' = <<Datagram(address, packet.wire, packet.data)>>
                        /\ server_listener' =
                               call_later(server_listener, timeout,
                                   [euuid |-> euuid, response |-> packet,
                                    cuuid |-> cuuid])
                        /\ last' = StepOn("notify", "sent", euuid, FALSE, FALSE)

\* Mutant: a handle_message that answers a method it has no branch for.
handle_message_answers(msg, host, verdict) ==
    \E decoded \in unserialize_data(msg.wire, server_config.compression,
                      host \in DOMAIN encrypted_hosts /\ server_config.encryption) :
        IF decoded # "ok"
        THEN /\ ServerUnchanged
             /\ out' = <<>>
             /\ last' = Step("undecodable", decoded, FALSE, FALSE)
        ELSE CASE msg.data.method = "REGISTER" -> register(msg.data, host)
               [] msg.data.method = "OHAI" -> autodiscover(msg.data, host)
               [] msg.data.method = "EVENT" -> event(msg.data, host, verdict)
               [] msg.data.method \in {"OK EVENT", "OK NOTIFY"} ->
                      confirm(msg.data, host)
               [] OTHER -> /\ ServerUnchanged
                           /\ out' = Reply(host, PlainWire,
                                         Msg("BYE", None, None, None, None, FALSE))
                           /\ last' = Step(msg.data.method, "ignored", FALSE, FALSE)

\* NeteriaServer.handle_message(msg, host) and the reply receive_datagram
\* sends: one step of the receive thread.
handle_message(msg, host, verdict) ==
    \E decoded \in unserialize_data(msg.wire, server_config.compression,
                      host \in DOMAIN encrypted_hosts /\ server_config.encryption) :
        IF decoded # "ok"
        THEN /\ ServerUnchanged
             /\ out' = <<>>
             /\ last' = Step("undecodable", decoded, FALSE, FALSE)
        ELSE CASE msg.data.method = "REGISTER" -> register(msg.data, host)
               [] msg.data.method = "OHAI" -> autodiscover(msg.data, host)
               [] msg.data.method = "EVENT" -> event(msg.data, host, verdict)
               [] msg.data.method \in {"OK EVENT", "OK NOTIFY"} ->
                      confirm(msg.data, host)
               [] OTHER -> /\ ServerUnchanged
                           /\ out' = <<>>
                           /\ last' = Step(msg.data.method, "ignored", FALSE, FALSE)

(* ---- the scheduler thread of the server's listener ---- *)

\* scheduler(): `if self.scheduled_calls:` then timestamp = time.time() and the
\* comprehension starts.
server_scheduler_wake ==
    /\ UNCHANGED beyond_server
    /\ server_listener.pc = "sleep"
    /\ server_listener.scheduled_calls # <<>>
    /\ server_listener' = [server_listener EXCEPT !.pc = "iter", !.idx = 1,
                                                  !.kept = <<>>]
    /\ UNCHANGED <<registry, encrypted_hosts, server_event_uuids, server_config,
                   minted, resends>>
    /\ out' = <<>>
    /\ last' = Step("wake", None, FALSE, FALSE)

\* One item of the comprehension: `if not self.time_reached(timestamp, item)`.
server_scheduler_item ==
    /\ server_listener.pc = "iter"
    /\ server_listener.idx <= Len(server_listener.scheduled_calls)
    /\ LET item == server_listener.scheduled_calls[server_listener.idx]
           L == [server_listener EXCEPT !.idx = @ + 1]
       IN  IF time_reached(item)
           THEN retransmit(item.args, L)
           ELSE /\ server_listener' = [L EXCEPT !.kept = Append(@, item)]
                /\ UNCHANGED <<registry, encrypted_hosts, server_event_uuids,
                               server_config, minted, resends>>
                /\ out' = <<>>
                /\ last' = Step("visit", "kept", FALSE, FALSE)

\* The item is visited while nothing else happens.
server_scheduler_visit == server_scheduler_item /\ UNCHANGED beyond_server

\* The list iterator is exhausted: the comprehension's result is complete.
server_scheduler_exhausted ==
    /\ UNCHANGED beyond_server
    /\ server_listener.pc = "iter"
    /\ server_listener.idx > Len(server_listener.scheduled_calls)
    /\ server_listener' = [server_listener EXCEPT !.pc = "store"]
    /\ UNCHANGED <<registry, encrypted_hosts, server_event_uuids, server_config,
                   minted, resends>>
    /\ out' = <<>>
    /\ last' = Step("exhausted", None, FALSE, FALSE)

\* self.scheduled_calls[:] = <the comprehension's result>, then sleep.
server_scheduler_store ==
    /\ UNCHANGED beyond_server
    /\ server_listener.pc = "store"
    /\ server_listener' = [scheduled_calls |-> server_listener.kept,
                           pc |-> "sleep", idx |-> 0, kept |-> <<>>]
    /\ UNCHANGED <<registry, encrypted_hosts, server_event_uuids, server_config,
                   minted, resends>>
    /\ out' = <<>>
    /\ last' = Step("store", None, FALSE, FALSE)

\* One second passes while the scheduler sleeps.
ServerTick ==
    /\ UNCHANGED beyond_server
    /\ server_listener.pc = "sleep"
    /\ \E i \in DOMAIN server_listener.scheduled_calls :
           server_listener.scheduled_calls[i].ts > 0
    /\ server_listener' = Elapse(server_listener)
    /\ UNCHANGED <<registry, encrypted_hosts, server_event_uuids, server_config,
                   minted, resends>>
    /\ out' = <<>>
    /\ last' = Step("tick", None, FALSE, FALSE)

(* ------------------------------------------------------------------ *)
(* NeteriaClient (neteria/client.py)                                   *)
(* ------------------------------------------------------------------ *)

\* self.cuuid = uuid.uuid1()
client_cuuid == "c1"

\* NeteriaClient.__init__: version="1.0.2", server_port=40080
client_version == "1.0.2"
server_port == 40080

\* self.server = None
NoAddress == <<"None", 0>>

\* NeteriaClient.__init__ with the default compression=False, encryption=False
ClientInit ==
    /\ registered = FALSE
    /\ server = NoAddress
    /\ server_key = FALSE
    /\ autoregistering = FALSE
    /\ discovered_servers = <<>>
    /\ client_event_uuids = <<>>
    /\ event_rollbacks = <<>>
    /\ event_notifies = <<>>
    /\ event_confirmations = <<>>
    /\ register_retries = 0
    /\ client_config = [compression |-> FALSE, encryption |-> FALSE]
    /\ client_listener = NewListener
    /\ client_minted = {}
    /\ sends = <<>>
    /\ register_sends = 0
    /\ register_first = NoAddress

\* serialize_data(..., self.compression, self.encryption, self.server_key)
ClientWire ==
    serialize_data(client_config.compression, client_config.encryption, server_key)

\* The arguments of a scheduled retransmit: {"method": "REGISTER", "address":
\* address}, or the EVENT packet, which is the very dictionary stored in
\* self.event_uuids[euuid] (its priority and retry are read there).
RegisterCall(address) == [method |-> "REGISTER", address |-> address, euuid |-> None]
EventCall(euuid) == [method |-> "EVENT", address |-> NoAddress, euuid |-> euuid]

\* The EVENT datagram of the packet stored under euuid.
EventDatagram(euuid, priority) ==
    Datagram(server, ClientWire,
             Msg("EVENT", client_cuuid, euuid, priority, None, FALSE))

\* NeteriaClient.register(address, retry); retries is self.register_retries and
\* L the listener as the call finds them.
client_register(address, retry, retries, L) ==
    /\ out' = <<Datagram(address,
                    serialize_data(client_config.compression, FALSE, FALSE),
                    Msg("REGISTER", client_cuuid, None, None, None,
                        client_config.encryption))>>
    /\ register_retries' = IF retry THEN 0 ELSE retries
    /\ register_sends' = IF retry THEN 1 ELSE register_sends + 1
    /\ register_first' = IF retry THEN address ELSE register_first
    /\ client_listener' = call_later(L, timeout, RegisterCall(address))

\* NeteriaClient.autodiscover(autoregister)
client_autodiscover(autoregister) ==
    /\ autoregistering' = IF autoregister THEN TRUE ELSE autoregistering
    /\ out' = <<Datagram(<<"<broadcast>", server_port>>,
                    serialize_data(client_config.compression, FALSE, FALSE),
                    Msg("OHAI", client_cuuid, None, None, client_version, FALSE))>>
    /\ UNCHANGED <<registered, server, server_key, discovered_servers,
                   client_event_uuids, event_rollbacks, event_notifies,
                   event_confirmations, register_retries, register_sends, register_first, client_config,
                   client_listener, client_minted, sends>>
    /\ last' = Step("autodiscover", None, FALSE, FALSE)

\* Mutant: event() does not look at the registered flag.
registration_unchecked == FALSE

\* event: `if not self.registered`
not_registered == ~registered

\* NeteriaClient.event(event_data, priority); euuid is what uuid1() returns.
client_event(euuid, priority) ==
    /\ client_minted' = client_minted \cup {euuid}
    /\ UNCHANGED <<registered, server, server_key, autoregistering,
                   discovered_servers, event_rollbacks, event_notifies,
                   event_confirmations, register_retries, register_sends, register_first, client_config>>
    /\ IF not_registered
       THEN /\ UNCHANGED <<client_event_uuids, client_listener, sends>>
            /\ out' = <<>>
            /\ last' = StepOn("event", "False", euuid, FALSE, FALSE)
       ELSE /\ out' = <<EventDatagram(euuid, priority)>>
            /\ sends' = Put(sends, euuid, 1)
            /\ client_event_uuids' =
                   Put(client_event_uuids, euuid, [priority |-> priority, retry |-> 0])
            /\ client_listener' = call_later(client_listener, timeout, EventCall(euuid))
            /\ last' = StepOn("event", "sent", euuid, FALSE, FALSE)

\* Mutant: the event is given up one retry early.
max_retries_reached(retry) == retry >= max_retries

\* retransmit: `self.event_uuids[euuid]["retry"] > self.max_retries`, after the
\* increment.
max_retries_exceeded(retry) == retry > max_retries

\* Mutant: a REGISTER is resent once more after max_retries resends.
register_retries_allowed(retries) == retries <= max_retries

\* retransmit: `self.register_retries < self.max_retries`, before the increment.
register_retries_left(retries) == retries < max_retries

\* A retransmit whose REGISTER goes to the address of the attempt's first
\* REGISTER instead of the address its own callback carries.
client_retransmit_first(data, L) ==
    /\ UNCHANGED <<registered, server, server_key, autoregistering,
                   discovered_servers, event_rollbacks, event_notifies,
                   event_confirmations, client_config, client_minted>>
    /\ IF data.method = "REGISTER"
       THEN /\ UNCHANGED <<client_event_uuids, sends>>
            /\ IF ~registered /\ register_retries_left(register_retries)
               THEN /\ client_register(register_first, FALSE, register_retries + 1, L)
                    /\ last' = Step("retransmit", "REGISTER resent", FALSE, FALSE)
               ELSE /\ UNCHANGED <<register_retries, register_sends, register_first>>
                    /\ client_listener' = L
                    /\ out' = <<>>
                    /\ last' = Step("retransmit", "REGISTER not resent", FALSE, FALSE)
       ELSE /\ UNCHANGED <<register_retries, register_sends, register_first>>
            /\ IF data.euuid \in DOMAIN client_event_uuids
               THEN LET packet == client_event_uuids[data.euuid]
                        retry == packet.retry + 1
                    IN  IF max_retries_exceeded(retry)
                        THEN /\ client_event_uuids' = Del(client_event_uuids, data.euuid)
                             /\ UNCHANGED sends
                             /\ client_listener' = L
                             /\ out' = <<>>
                             /\ last' = StepOn("retransmit", "deleted", data.euuid,
                                               FALSE, FALSE)
                        ELSE /\ client_event_uuids' =
                                    Put(client_event_uuids, data.euuid,
                                        [packet EXCEPT !.retry = retry])
                             /\ sends' = Put(sends, data.euuid, sends[data.euuid] + 1)
                             /\ out' = <<EventDatagram(data.euuid, packet.priority)>>
                             /\ client_listener' = call_later(L, timeout, data)
                             /\ last' = StepOn("retransmit", "resent", data.euuid,
                                               FALSE, FALSE)
               ELSE /\ UNCHANGED <<client_event_uuids, sends>>
                    /\ client_listener' = L
                    /\ out' = <<>>
                    /\ last' = StepOn("retransmit", "no entry", data.euuid, FALSE, FALSE)

\* NeteriaClient.retransmit(data), run by the scheduler thread inside
\* time_reached; L is the listener as the callback finds it.
client_retransmit(data, L) ==
    /\ UNCHANGED <<registered, server, server_key, autoregistering,
                   discovered_servers, event_rollbacks, event_notifies,
                   event_confirmations, client_config, client_minted>>
    /\ IF data.method = "REGISTER"
       THEN /\ UNCHANGED <<client_event_uuids, sends>>
            /\ IF ~registered /\ register_retries_left(register_retries)
               THEN /\ client_register(data.address, FALSE, register_retries + 1, L)
                    /\ last' = Step("retransmit", "REGISTER resent", FALSE, FALSE)
               ELSE /\ UNCHANGED <<register_retries, register_sends, register_first>>
                    /\ client_listener' = L
                    /\ out' = <<>>
                    /\ last' = Step("retransmit", "REGISTER not resent", FALSE, FALSE)
       ELSE /\ UNCHANGED <<register_retries, register_sends, register_first>>
            /\ IF data.euuid \in DOMAIN client_event_uuids
               THEN LET packet == client_event_uuids[data.euuid]
                        retry == packet.retry + 1
                    IN  IF max_retries_exceeded(retry)
                        THEN /\ client_event_uuids' = Del(client_event_uuids, data.euuid)
                             /\ UNCHANGED sends
                             /\ client_listener' = L
                             /\ out' = <<>>
                             /\ last' = StepOn("retransmit", "deleted", data.euuid,
                                               FALSE, FALSE)
                        ELSE /\ client_event_uuids' =
                                    Put(client_event_uuids, data.euuid,
                                        [packet EXCEPT !.retry = retry])
                             /\ sends' = Put(sends, data.euuid, sends[data.euuid] + 1)
                             /\ out' = <<EventDatagram(data.euuid, packet.priority)>>
                             /\ client_listener' = call_later(L, timeout, data)
                             /\ last' = StepOn("retransmit", "resent", data.euuid,
                                               FALSE, FALSE)
               ELSE /\ UNCHANGED <<client_event_uuids, sends>>
                    /\ client_listener' = L
                    /\ out' = <<>>
                    /\ last' = StepOn("retransmit", "no entry", data.euuid, FALSE, FALSE)

\* legal_check: the lookups self.event_uuids[message["euuid"]] that are not
\* inside a try (LEGAL with priority high, ILLEGAL) raise KeyError when the
\* euuid is not pending.
legal_check_raises(message) ==
    /\ message.euuid \notin DOMAIN client_event_uuids
    /\ \/ message.method = "LEGAL" /\ message.priority = "high"
       \/ message.method = "ILLEGAL"

\* Mutant: a legal event is only deleted, whatever its priority.
legal_check_forgets(message) ==
    LET euuid == message.euuid
    IN  /\ client_event_uuids' = Del(client_event_uuids, euuid)
        /\ IF message.method = "LEGAL"
           THEN UNCHANGED <<event_confirmations, event_rollbacks>>
           ELSE /\ event_rollbacks' =
                       Put(event_rollbacks, euuid, client_event_uuids[euuid])
                /\ UNCHANGED event_confirmations

\* NeteriaClient.legal_check(message), when it does not raise.
legal_check(message) ==
    LET euuid == message.euuid
    IN  /\ client_event_uuids' = Del(client_event_uuids, euuid)
        /\ IF message.method = "LEGAL"
           THEN /\ event_confirmations' =
                       IF message.priority = "high"
                       THEN Put(event_confirmations, euuid, client_event_uuids[euuid])
                       ELSE event_confirmations
                /\ UNCHANGED event_rollbacks
           ELSE /\ event_rollbacks' =
                       Put(event_rollbacks, euuid, client_event_uuids[euuid])
                /\ UNCHANGED event_confirmations

\* Mutant: the client also takes the first server that answers a discovery as
\* the one it is registered with.
ohai_client_registers(message, host) ==
    /\ discovered_servers' = Put(discovered_servers, host,
                                 <<message.version, message.server_name>>)
    /\ registered' = TRUE
    /\ server' = host
    /\ UNCHANGED <<server_key, client_event_uuids, event_rollbacks,
                   event_notifies, event_confirmations, client_config,
                   client_minted, sends>>
    /\ IF autoregistering
       THEN /\ client_register(host, TRUE, register_retries, client_listener)
            /\ autoregistering' = FALSE
       ELSE /\ UNCHANGED <<register_retries, register_sends, register_first, client_listener, autoregistering>>
            /\ out' = <<>>
    /\ last' = Step(message.method, IF autoregistering THEN "registering" ELSE "noted",
                    FALSE, FALSE)

\* Mutant: the client registers with the server of an OHAI Client and stays
\* auto-registering.
ohai_client_keeps_registering(message, host) ==
    /\ discovered_servers' = Put(discovered_servers, host,
                                 <<message.version, message.server_name>>)
    /\ UNCHANGED <<registered, server, server_key, client_event_uuids,
                   event_rollbacks, event_notifies, event_confirmations,
                   client_config, client_minted, sends, autoregistering>>
    /\ IF autoregistering
       THEN client_register(host, TRUE, register_retries, client_listener)
       ELSE /\ UNCHANGED <<register_retries, register_sends, register_first, client_listener>>
            /\ out' = <<>>
    /\ last' = Step(message.method, IF autoregistering THEN "registering" ELSE "noted",
                    FALSE, FALSE)

\* handle_message, "OHAI Client"
ohai_client(message, host) ==
    /\ discovered_servers' = Put(discovered_servers, host,
                                 <<message.version, message.server_name>>)
    /\ UNCHANGED <<registered, server, server_key, client_event_uuids,
                   event_rollbacks, event_notifies, event_confirmations,
                   client_config, client_minted, sends>>
    /\ IF autoregistering
       THEN /\ client_register(host, TRUE, register_retries, client_listener)
            /\ autoregistering' = FALSE
       ELSE /\ UNCHANGED <<register_retries, register_sends, register_first, client_listener, autoregistering>>
            /\ out' = <<>>
    /\ last' = Step(message.method, IF autoregistering THEN "registering" ELSE "noted",
                    FALSE, FALSE)

\* Mutant: a notification whose euuid is already stored is taken for a
\* duplicate and dropped without an answer.
notified_once(message, host) ==
    /\ UNCHANGED <<registered, server, server_key, autoregistering,
                   discovered_servers, client_event_uuids, event_rollbacks,
                   event_confirmations, register_retries, register_sends, register_first, client_config,
                   client_listener, client_minted, sends>>
    /\ IF message.euuid \in DOMAIN event_notifies
       THEN /\ UNCHANGED event_notifies
            /\ out' = <<>>
       ELSE /\ event_notifies' = Put(event_notifies, message.euuid, message.event_data)
            /\ out' = Reply(host, ClientWire,
                         Msg("OK NOTIFY", client_cuuid, message.euuid,
                             None, None, FALSE))
    /\ last' = StepOn(message.method, "OK NOTIFY", message.euuid, FALSE, FALSE)

\* handle_message, "NOTIFY"
notified(message, host) ==
    /\ event_notifies' = Put(event_notifies, message.euuid, message.event_data)
    /\ UNCHANGED <<registered, server, server_key, autoregistering,
                   discovered_servers, client_event_uuids, event_rollbacks,
                   event_confirmations, register_retries, register_sends, register_first, client_config,
                   client_listener, client_minted, sends>>
    /\ out' = Reply(host, ClientWire,
                 Msg("OK NOTIFY", client_cuuid, message.euuid, None, None, FALSE))
    /\ last' = StepOn(message.method, "OK NOTIFY", message.euuid, FALSE, FALSE)

\* NeteriaClient.handle_message(msg, host) and the reply receive_datagram
\* sends: one step of the receive thread.
client_handle_message(msg, host) ==
    \E decoded \in unserialize_data(msg.wire, client_config.compression,
                                    client_config.encryption /\ server_key) :
        IF decoded # "ok"
        THEN /\ UNCHANGED client_vars
             /\ out' = <<>>
             /\ last' = Step("client undecodable", decoded, FALSE, FALSE)
        ELSE LET message == msg.data
             IN  CASE message.method = "OHAI Client" -> ohai_client(message, host)
                   [] message.method = "NOTIFY" -> notified(message, host)
                   [] message.method = "OK REGISTER" ->
                        /\ registered' = TRUE
                        /\ server' = host
                        /\ server_key' = IF message.encryption /\ client_config.encryption
                                         THEN TRUE ELSE server_key
                        /\ UNCHANGED <<autoregistering, discovered_servers,
                                       client_event_uuids, event_rollbacks,
                                       event_notifies, event_confirmations,
                                       register_retries, register_sends, register_first, client_config,
                                       client_listener, client_minted, sends>>
                        /\ out' = <<>>
                        /\ last' = Step(message.method, "registered", FALSE, FALSE)
                   [] message.method \in {"LEGAL", "ILLEGAL"} ->
                        IF legal_check_raises(message)
                        THEN \* the KeyError leaves handle_message: no response
                             /\ UNCHANGED client_vars
                             /\ out' = <<>>
                             /\ last' = StepAbout(message.method, "KeyError",
                                                  message.euuid, message.priority,
                                                  FALSE, FALSE)
                        ELSE /\ legal_check(message)
                             /\ UNCHANGED <<registered, server, server_key,
                                            autoregistering, discovered_servers,
                                            event_notifies, register_retries, register_sends, register_first,
                                            client_config, client_listener,
                                            client_minted, sends>>
                             /\ out' = Reply(host, ClientWire,
                                          Msg("OK EVENT", client_cuuid, message.euuid,
                                              None, None, FALSE))
                             /\ last' = StepAbout(message.method, "OK EVENT",
                                                  message.euuid, message.priority,
                                                  FALSE, FALSE)
                   [] OTHER -> /\ UNCHANGED client_vars
                               /\ out' = <<>>
                               /\ last' = Step(message.method, "ignored", FALSE, FALSE)

(* ---- the scheduler thread of the client's listener ---- *)

\* What a step of the scheduler thread itself leaves alone in the client, and
\* everywhere.
ClientSchedulerQuiet ==
    UNCHANGED <<registered, server, server_key, autoregistering,
                discovered_servers, client_event_uuids, event_rollbacks,
                event_notifies, event_confirmations, register_retries,
                register_sends, register_first, client_config, client_minted, sends>>
ClientSchedulerFrame == ClientSchedulerQuiet /\ UNCHANGED beyond_client

\* scheduler(): `if self.scheduled_calls:` then timestamp = time.time() and the
\* comprehension starts.
client_scheduler_wake ==
    /\ client_listener.pc = "sleep"
    /\ client_listener.scheduled_calls # <<>>
    /\ client_listener' = [client_listener EXCEPT !.pc = "iter", !.idx = 1,
                                                  !.kept = <<>>]
    /\ ClientSchedulerFrame
    /\ out' = <<>>
    /\ last' = Step("wake", None, FALSE, FALSE)

\* One item of the comprehension: `if not self.time_reached(timestamp, item)`.
client_scheduler_item ==
    /\ client_listener.pc = "iter"
    /\ client_listener.idx <= Len(client_listener.scheduled_calls)
    /\ LET item == client_listener.scheduled_calls[client_listener.idx]
           L == [client_listener EXCEPT !.idx = @ + 1]
       IN  IF time_reached(item)
           THEN client_retransmit(item.args, L)
           ELSE /\ client_listener' = [L EXCEPT !.kept = Append(@, item)]
                /\ ClientSchedulerQuiet
                /\ out' = <<>>
                /\ last' = Step("visit", "kept", FALSE, FALSE)

\* The item is visited while nothing else happens.
client_scheduler_visit == client_scheduler_item /\ UNCHANGED beyond_client

\* The list iterator is exhausted: the comprehension's result is complete.
client_scheduler_exhausted ==
    /\ client_listener.pc = "iter"
    /\ client_listener.idx > Len(client_listener.scheduled_calls)
    /\ client_listener' = [client_listener EXCEPT !.pc = "store"]
    /\ ClientSchedulerFrame
    /\ out' = <<>>
    /\ last' = Step("exhausted", None, FALSE, FALSE)

\* self.scheduled_calls[:] = <the comprehension's result>, then sleep.
client_scheduler_store ==
    /\ client_listener.pc = "store"
    /\ client_listener' = [scheduled_calls |-> client_listener.kept,
                           pc |-> "sleep", idx |-> 0, kept |-> <<>>]
    /\ ClientSchedulerFrame
    /\ out' = <<>>
    /\ last' = Step("store", None, FALSE, FALSE)

\* One second passes while the scheduler sleeps.
ClientTick ==
    /\ client_listener.pc = "sleep"
    /\ \E i \in DOMAIN client_listener.scheduled_calls :
           client_listener.scheduled_calls[i].ts > 0
    /\ client_listener' = Elapse(client_listener)
    /\ ClientSchedulerFrame
    /\ out' = <<>>
    /\ last' = Step("tick", None, FALSE, FALSE)

(* ---- the server and its environment ---- *)

\* The datagrams the network delivers to the server in SpecServer, from
\* either address: c1 registers, c2 never does (a stranger that sends events
\* and acknowledgements); one datagram is undecodable (built encrypted).
ServerAddrs == {<<"h1", 1>>, <<"h2", 1>>}
ServerInbox ==
    {[wire |-> [comp |-> FALSE, enc |-> TRUE],
      data |-> Msg("BYE EVENT", "c1", None, None, None, FALSE)]}
    \cup
    [wire : {PlainWire},
     data : {Msg("REGISTER", "c1", None, None, None, k) : k \in BOOLEAN}
            \cup {Msg(m, c, e, None, None, FALSE) :
                 m \in {"OK EVENT", "OK NOTIFY"},
                 c \in EventCuuids, e \in Euuids}
            \cup {Msg("BYE EVENT", "c1", None, None, None, FALSE)}]
ServerEvents ==
    [wire : {PlainWire},
     data : {Msg("EVENT", c, e, "normal", None, FALSE) :
                 c \in EventCuuids, e \in ClientEuuids}]

\* NeteriaServer.__init__ with the default compression=False, encryption=False
ServerInit ==
    /\ registry = <<>>
    /\ encrypted_hosts = <<>>
    /\ server_event_uuids = <<>>
    /\ server_config = [compression |-> FALSE, encryption |-> FALSE]
    /\ server_listener = NewListener
    /\ minted = {}
    /\ resends = <<>>
    /\ net = <<>>
    /\ out = <<>>
    /\ last = Step("init", None, FALSE, FALSE)

ServerReceive ==
    \E msg \in ServerInbox, host \in ServerAddrs :
        /\ handle_message(msg, host, "legal")
        /\ UNCHANGED beyond_server

ServerReceiveEvent ==
    \E msg \in ServerEvents, host \in ServerAddrs, verdict \in Verdicts :
        /\ Len(server_listener.scheduled_calls) < MaxCalls
        /\ handle_message(msg, host, verdict)
        /\ UNCHANGED beyond_server

ServerNotify ==
    \E cuuid \in EventCuuids, euuid \in NotifyEuuids \ minted, oversize \in BOOLEAN :
        /\ Len(server_listener.scheduled_calls) < MaxCalls
        /\ notify(cuuid, euuid, oversize)
        /\ UNCHANGED beyond_server

ServerNext ==
    \/ ServerReceive
    \/ ServerReceiveEvent
    \/ ServerNotify
    \/ server_scheduler_wake
    \/ server_scheduler_visit
    \/ server_scheduler_exhausted
    \/ server_scheduler_store
    \/ ServerTick

\* The server alone: the client of the model takes no step.
ServerAloneInit == ServerInit /\ ClientInit
SpecServer == ServerAloneInit /\ [][ServerNext]_vars

(* ------------------------------------------------------------------ *)
(* SpecRegistry: discovery and registration on the server, under every *)
(* combination of the compression and encryption flags                 *)
(* ------------------------------------------------------------------ *)

RegistryInbox ==
    [wire : Wires,
     data : {Msg("REGISTER", c, None, None, None, k) :
                 c \in Cuuids, k \in BOOLEAN}
            \cup {Msg("OHAI", c, None, None, v, FALSE) :
                 c \in Cuuids, v \in Versions}]

\* NeteriaServer.__init__(compression=..., encryption=...)
RegistryInit ==
    /\ registry = <<>>
    /\ encrypted_hosts = <<>>
    /\ server_event_uuids = <<>>
    /\ server_config \in [compression : BOOLEAN, encryption : BOOLEAN]
    /\ server_listener = NewListener
    /\ minted = {}
    /\ resends = <<>>
    /\ net = <<>>
    /\ out = <<>>
    /\ last = Step("init", None, FALSE, FALSE)

RegistryReceive ==
    \E msg \in RegistryInbox, host \in Addrs :
        /\ handle_message(msg, host, "legal")
        /\ UNCHANGED beyond_server

RegistryNext == RegistryReceive

RegistryAloneInit == RegistryInit /\ ClientInit
SpecRegistry == RegistryAloneInit /\ [][RegistryNext]_vars

\* The datagram is one the server decodes when it comes from `host`.
Decodes(msg, host) ==
    unserialize_data(msg.wire, server_config.compression,
        host \in DOMAIN encrypted_hosts /\ server_config.encryption) = {"ok"}

(* ------------------------------------------------------------------ *)
(* SpecAdjudication: registration and events on the server, with       *)
(* either priority, under every combination of the compression and     *)
(* encryption flags                                                    *)
(* ------------------------------------------------------------------ *)

\* c1 registers, with or without a public key; events come from c1 and from
\* c2, which never registers, from either address, built in every way
\* serialize_data can build them.
AdjudicationInbox ==
    [wire : Wires,
     data : {Msg("REGISTER", "c1", None, None, None, k) : k \in BOOLEAN}]
AdjudicationEvents ==
    [wire : Wires,
     data : {Msg("EVENT", c, e, p, None, FALSE) :
                 c \in EventCuuids, e \in ClientEuuids, p \in Priorities}]

AdjudicationReceive ==
    \E msg \in AdjudicationInbox, host \in ServerAddrs :
        /\ handle_message(msg, host, "legal")
        /\ UNCHANGED beyond_server

AdjudicationReceiveEvent ==
    \E msg \in AdjudicationEvents, host \in ServerAddrs, verdict \in Verdicts :
        /\ Len(server_listener.scheduled_calls) < MaxCalls
        /\ handle_message(msg, host, verdict)
        /\ UNCHANGED beyond_server

AdjudicationNext ==
    \/ AdjudicationReceive
    \/ AdjudicationReceiveEvent
    \/ server_scheduler_wake
    \/ server_scheduler_visit
    \/ server_scheduler_exhausted
    \/ server_scheduler_store
    \/ ServerTick

AdjudicationInit == RegistryInit /\ ClientInit
SpecAdjudication == AdjudicationInit /\ [][AdjudicationNext]_vars

(* ------------------------------------------------------------------ *)
(* SpecClient: the client with one server, the application that        *)
(* registers and sends events, and the datagrams the network delivers  *)
(* ------------------------------------------------------------------ *)

\* The address datagrams come from and register() is called with.
ClientServers == {<<"s1", server_port>>}

\* What the network delivers: the server's answers, adjudications of e1 with
\* either priority, and one datagram the client cannot decode (built
\* encrypted).
Undecodable ==
    [wire |-> [comp |-> FALSE, enc |-> TRUE],
     data |-> Msg("BYE EVENT", None, None, None, None, FALSE)]
ClientInbox ==
    {Undecodable} \cup
    [wire : {PlainWire},
     data : {Msg(m, None, None, None, None, FALSE) :
                 m \in {"OK REGISTER", "BYE REGISTER", "BYE EVENT"}}
            \cup {Msg(m, None, e, p, None, FALSE) :
                 m \in {"LEGAL", "ILLEGAL"}, e \in ClientEuuids, p \in Priorities}]

ClientReceive ==
    \E msg \in ClientInbox, host \in ClientServers :
        /\ client_handle_message(msg, host)
        /\ UNCHANGED beyond_client

\* The application calls register(address).
ClientRegister ==
    \E address \in ClientServers :
        /\ Len(client_listener.scheduled_calls) < MaxCalls
        /\ client_register(address, TRUE, register_retries, client_listener)
        /\ UNCHANGED <<beyond_client, registered, server, server_key,
                       autoregistering, discovered_servers, client_event_uuids,
                       event_rollbacks, event_notifies, event_confirmations,
                       client_config, client_minted, sends>>
        /\ last' = Step("register", None, FALSE, FALSE)

\* The application calls event(event_data, priority).
ClientEvent ==
    \E euuid \in ClientEuuids \ client_minted, priority \in Priorities :
        /\ Len(client_listener.scheduled_calls) < MaxCalls
        /\ client_event(euuid, priority)
        /\ UNCHANGED beyond_client

ClientNext ==
    \/ ClientReceive
    \/ ClientRegister
    \/ ClientEvent
    \/ client_scheduler_wake
    \/ client_scheduler_visit
    \/ client_scheduler_exhausted
    \/ client_scheduler_store
    \/ ClientTick

\* The client alone: the server of the model takes no step.
ClientAloneInit == ServerInit /\ ClientInit
SpecClient == ClientAloneInit /\ [][ClientNext]_vars

(* ------------------------------------------------------------------ *)
(* SpecRegistering: the client from its construction up to and         *)
(* including the step that registers it: every call, every received    *)
(* method and every timer callback the client has while registered is  *)
(* False                                                               *)
(* ------------------------------------------------------------------ *)

RegisteringInbox ==
    ClientInbox \cup
    [wire : {PlainWire},
     data : {Msg("NOTIFY", None, e, None, None, FALSE) : e \in NotifyEuuids}]
ClientOhais ==
    [wire : {PlainWire},
     data : {OhaiClientMsg(version, server_name)}]

RegisteringReceive ==
    /\ ~registered
    /\ \E msg \in RegisteringInbox, host \in ClientServers :
           client_handle_message(msg, host)
    /\ UNCHANGED beyond_client

RegisteringReceiveOhai ==
    /\ ~registered
    /\ Len(client_listener.scheduled_calls) < MaxCalls
    /\ \E msg \in ClientOhais, host \in ClientServers :
           client_handle_message(msg, host)
    /\ UNCHANGED beyond_client

\* The application calls autodiscover(autoregister).
RegisteringAutodiscover ==
    /\ ~registered
    /\ \E autoregister \in BOOLEAN : client_autodiscover(autoregister)
    /\ UNCHANGED beyond_client

\* The application calls register(address).
RegisteringRegister ==
    /\ ~registered
    /\ Len(client_listener.scheduled_calls) < MaxCalls
    /\ \E address \in ClientServers :
           client_register(address, TRUE, register_retries, client_listener)
    /\ UNCHANGED <<beyond_client, registered, server, server_key,
                   autoregistering, discovered_servers, client_event_uuids,
                   event_rollbacks, event_notifies, event_confirmations,
                   client_config, client_minted, sends>>
    /\ last' = Step("register", None, FALSE, FALSE)

\* The application calls event(event_data, priority).
RegisteringEvent ==
    /\ ~registered
    /\ \E euuid \in ClientEuuids \ client_minted, priority \in Priorities :
           client_event(euuid, priority)
    /\ UNCHANGED beyond_client

RegisteringScheduler ==
    /\ ~registered
    /\ \/ client_scheduler_wake
       \/ client_scheduler_visit
       \/ client_scheduler_exhausted
       \/ client_scheduler_store

RegisteringTick == ~registered /\ ClientTick

RegisteringNext ==
    \/ RegisteringReceive
    \/ RegisteringReceiveOhai
    \/ RegisteringAutodiscover
    \/ RegisteringRegister
    \/ RegisteringEvent
    \/ RegisteringScheduler
    \/ RegisteringTick

RegisteringInit == ServerInit /\ ClientInit
SpecRegistering == RegisteringInit /\ [][RegisteringNext]_vars

(* ------------------------------------------------------------------ *)
(* SpecNotify: the client, registered or not, and the notifications    *)
(* the network delivers to it, any of them any number of times         *)
(* ------------------------------------------------------------------ *)

ClientNotifyEuuids == {"n1", "n2"}
EventData == {"d1", "d2"}

NotifyInbox ==
    {Undecodable} \cup
    [wire : {PlainWire},
     data : {Msg(m, None, None, None, None, FALSE) :
                 m \in {"OK REGISTER", "BYE REGISTER"}}
            \cup {NotifyMsg(e, d) : e \in ClientNotifyEuuids, d \in EventData}]

NotifyReceive ==
    \E msg \in NotifyInbox, host \in ClientServers :
        /\ client_handle_message(msg, host)
        /\ UNCHANGED beyond_client

NotifyNext ==
    \/ NotifyReceive
    \/ ClientRegister
    \/ client_scheduler_wake
    \/ client_scheduler_visit
    \/ client_scheduler_exhausted
    \/ client_scheduler_store
    \/ ClientTick

NotifyInit == ServerInit /\ ClientInit
SpecNotify == NotifyInit /\ [][NotifyNext]_vars

(* ------------------------------------------------------------------ *)
(* SpecDiscovery: discovery end to end. The client broadcasts OHAI, a  *)
(* NeteriaServer answers the OHAIs and REGISTERs it receives, and its  *)
(* answers to the client's address reach the client from either of two *)
(* servers on the network                                              *)
(* ------------------------------------------------------------------ *)

DiscoveryServers == {<<"s1", server_port>>, <<"s2", server_port>>}

\* The address the client's socket is bound to, and the addresses the servers
\* receive datagrams from.
ClientAddress == <<"h1", 1>>
DiscoveryAddrs == {ClientAddress, <<"h2", 1>>}

\* OHAI and REGISTER are never encrypted; their senders compress or not.
DiscoveryInbox ==
    [wire : {w \in Wires : ~w.enc},
     data : {Msg("OHAI", client_cuuid, None, None, v, FALSE) : v \in Versions}
            \cup {Msg("REGISTER", client_cuuid, None, None, None, FALSE)}]

\* A server receives an OHAI or a REGISTER.
DiscoveryServerReceive ==
    /\ \E msg \in DiscoveryInbox, host \in DiscoveryAddrs :
           handle_message(msg, host, "legal")
    /\ UNCHANGED beyond_server

\* A server has just sent an answer to the client's address.
DiscoveryAnswered ==
    /\ last.op \in {"OHAI", "REGISTER"}
    /\ Len(out) = 1
    /\ out[1].to = ClientAddress

\* The answer as the client's socket receives it.
DiscoveryAnswer == [wire |-> out[1].wire, data |-> out[1].data]

\* The answer arrives, with `host` the address of the server it comes from.
DiscoveryDeliver ==
    /\ DiscoveryAnswered
    /\ Len(client_listener.scheduled_calls) < MaxCalls
    /\ \E host \in DiscoveryServers :
           client_handle_message(DiscoveryAnswer, host)
    /\ UNCHANGED beyond_client

\* The application calls autodiscover(autoregister).
DiscoveryAutodiscover ==
    /\ \E autoregister \in BOOLEAN : client_autodiscover(autoregister)
    /\ UNCHANGED beyond_client

DiscoveryNext ==
    \/ DiscoveryServerReceive
    \/ DiscoveryDeliver
    \/ DiscoveryAutodiscover
    \/ client_scheduler_wake
    \/ client_scheduler_visit
    \/ client_scheduler_exhausted
    \/ client_scheduler_store
    \/ ClientTick

\* NeteriaServer.__init__(compression=...) and NeteriaClient.__init__(): the
\* servers compress or not, and none of them encrypts.
DiscoveryInit ==
    /\ registry = <<>>
    /\ encrypted_hosts = <<>>
    /\ server_event_uuids = <<>>
    /\ server_config \in [compression : BOOLEAN, encryption : {FALSE}]
    /\ server_listener = NewListener
    /\ minted = {}
    /\ resends = <<>>
    /\ net = <<>>
    /\ out = <<>>
    /\ last = Step("init", None, FALSE, FALSE)
    /\ ClientInit
SpecDiscovery == DiscoveryInit /\ [][DiscoveryNext]_vars

(* ------------------------------------------------------------------ *)
(* SpecSession: one registered client and its server, joined by a      *)
(* network that delays and reorders datagrams and loses none; both     *)
(* receive threads and both scheduler threads are scheduled fairly     *)
(* ------------------------------------------------------------------ *)

SessionServer == <<"s1", server_port>>

\* The bag of datagrams in flight: sendto() posts, recvfrom() takes.
RECURSIVE Post(_, _)
Post(n, datagrams) ==
    IF datagrams = <<>> THEN n
    ELSE LET d == Head(datagrams)
         IN  Post(Put(n, d, IF d \in DOMAIN n THEN n[d] + 1 ELSE 1),
                  Tail(datagrams))
Without(n, d) == [x \in DOMAIN n \ {d} |-> n[x]]
Take(n, d) == IF n[d] = 1 THEN Without(n, d) ELSE Put(n, d, n[d] - 1)

\* How many datagrams are in flight; a step that would post one more than
\* MaxInFlight waits.
RECURSIVE InFlight(_)
InFlight(n) ==
    IF DOMAIN n = {} THEN 0
    ELSE LET d == CHOOSE x \in DOMAIN n : TRUE
         IN  n[d] + InFlight(Without(n, d))

\* The state after register(SessionServer) was answered OK REGISTER and the
\* REGISTER callback has run: the client is registered, the server holds its
\* entry, nothing is pending, in flight or scheduled. No side compresses or
\* encrypts.
SessionInit ==
    /\ registry = Put(<<>>, client_cuuid,
                      [host |-> ClientAddress[1], port |-> ClientAddress[2],
                       encryption |-> FALSE])
    /\ encrypted_hosts = <<>>
    /\ server_event_uuids = <<>>
    /\ server_config = [compression |-> FALSE, encryption |-> FALSE]
    /\ server_listener = NewListener
    /\ minted = {}
    /\ resends = <<>>
    /\ registered = TRUE
    /\ server = SessionServer
    /\ server_key = FALSE
    /\ autoregistering = FALSE
    /\ discovered_servers = <<>>
    /\ client_event_uuids = <<>>
    /\ event_rollbacks = <<>>
    /\ event_notifies = <<>>
    /\ event_confirmations = <<>>
    /\ register_retries = 0
    /\ client_config = [compression |-> FALSE, encryption |-> FALSE]
    /\ client_listener = NewListener
    /\ client_minted = {}
    /\ sends = <<>>
    /\ register_sends = 1
    /\ register_first = SessionServer
    /\ net = <<>>
    /\ out = <<>>
    /\ last = Step("init", None, FALSE, FALSE)

\* The application calls event(event_data, priority): one event, of the
\* priority whose adjudications the client records either way.
SessionPriorities == {"high"}
SessionEvent ==
    /\ \E euuid \in ClientEuuids \ client_minted, priority \in SessionPriorities :
           client_event(euuid, priority)
    /\ net' = Post(net, out')
    /\ InFlight(net') <= MaxInFlight
    /\ UNCHANGED server_vars

\* The server's receive thread takes a datagram; event_legal returns.
SessionServerReceive ==
    \E d \in DOMAIN net, verdict \in Verdicts \ {"raise"} :
        /\ d.to = SessionServer
        /\ handle_message([wire |-> d.wire, data |-> d.data], ClientAddress, verdict)
        /\ net' = Post(Take(net, d), out')
        /\ UNCHANGED client_vars

\* The client's receive thread takes a datagram.
SessionClientReceive ==
    \E d \in DOMAIN net :
        /\ d.to = ClientAddress
        /\ client_handle_message([wire |-> d.wire, data |-> d.data], SessionServer)
        /\ net' = Post(Take(net, d), out')
        /\ UNCHANGED server_vars

\* A scheduler thread visits an item and posts what its callback sends.
SessionServerVisit ==
    /\ server_scheduler_item
    /\ net' = Post(net, out')
    /\ InFlight(net') <= MaxInFlight
    /\ UNCHANGED client_vars

SessionClientVisit ==
    /\ client_scheduler_item
    /\ net' = Post(net, out')
    /\ InFlight(net') <= MaxInFlight
    /\ UNCHANGED server_vars

SessionNext ==
    \/ SessionEvent
    \/ SessionServerReceive
    \/ SessionClientReceive
    \/ SessionServerVisit
    \/ SessionClientVisit
    \/ server_scheduler_wake
    \/ server_scheduler_exhausted
    \/ server_scheduler_store
    \/ ServerTick
    \/ client_scheduler_wake
    \/ client_scheduler_exhausted
    \/ client_scheduler_store
    \/ ClientTick

\* Every thread that can run does; the clocks advance whenever a scheduler
\* sleeps, which it does after every pass.
SessionFairness ==
    /\ WF_vars(SessionServerReceive)
    /\ WF_vars(SessionClientReceive)
    /\ WF_vars(SessionServerVisit)
    /\ WF_vars(SessionClientVisit)
    /\ WF_vars(server_scheduler_wake)
    /\ WF_vars(server_scheduler_exhausted)
    /\ WF_vars(server_scheduler_store)
    /\ SF_vars(ServerTick)
    /\ WF_vars(client_scheduler_wake)
    /\ WF_vars(client_scheduler_exhausted)
    /\ WF_vars(client_scheduler_store)
    /\ SF_vars(ClientTick)

SpecSession == SessionInit /\ [][SessionNext]_vars /\ SessionFairness

(* ------------------------------------------------------------------ *)
(* SpecLossy: the same session over a network that may also lose any   *)
(* datagram                                                            *)
(* ------------------------------------------------------------------ *)

\* A datagram in flight is lost.
SessionLose ==
    /\ \E d \in DOMAIN net : net' = Take(net, d)
    /\ out' = <<>>
    /\ last' = Step("lost", None, FALSE, FALSE)
    /\ UNCHANGED <<server_vars, client_vars>>

LossyNext == SessionNext \/ SessionLose

SpecLossy == SessionInit /\ [][LossyNext]_vars /\ SessionFairness

(* ------------------------------------------------------------------ *)
(* The codec applied to what the engines emit                           *)
(* ------------------------------------------------------------------ *)

\* The mappings the two engines hand to serialize_data.
EmittedMappings ==
    {Msg("OHAI", c, None, None, v, FALSE) : c \in Cuuids, v \in Versions}
    \cup {Msg("REGISTER", c, None, None, None, k) : c \in Cuuids, k \in BOOLEAN}
    \cup {Msg("EVENT", c, e, p, None, FALSE) :
              c \in Cuuids, e \in ClientEuuids, p \in Priorities}
    \cup {Msg(m, c, e, None, None, FALSE) :
              m \in {"OK EVENT", "OK NOTIFY"}, c \in Cuuids, e \in Euuids}
    \cup {OhaiClientMsg(v, server_name) : v \in Versions}
    \cup {Msg("OK REGISTER", None, None, None, None, k) : k \in BOOLEAN}
    \cup {Msg(m, None, None, None, None, FALSE) : m \in {"BYE REGISTER", "BYE EVENT"}}
    \cup {Msg(m, None, e, p, None, FALSE) :
              m \in {"LEGAL", "ILLEGAL"}, e \in ClientEuuids, p \in Priorities}
    \cup {NotifyMsg(e, d) : e \in NotifyEuuids, d \in {"d1", "d2"}}

\* Both sides were constructed with the same compression and encryption
\* flags and the sender holds the receiver's public key; nothing else has
\* happened yet.
CodecInit ==
    /\ registry = <<>>
    /\ encrypted_hosts = <<>>
    /\ server_event_uuids = <<>>
    /\ server_config \in [compression : BOOLEAN, encryption : BOOLEAN]
    /\ server_listener = NewListener
    /\ minted = {}
    /\ resends = <<>>
    /\ registered = FALSE
    /\ server = SessionServer
    /\ server_key = TRUE
    /\ autoregistering = FALSE
    /\ discovered_servers = <<>>
    /\ client_event_uuids = <<>>
    /\ event_rollbacks = <<>>
    /\ event_notifies = <<>>
    /\ event_confirmations = <<>>
    /\ register_retries = 0
    /\ client_config = server_config
    /\ client_listener = NewListener
    /\ client_minted = {}
    /\ sends = <<>>
    /\ register_sends = 0
    /\ register_first = NoAddress
    /\ net = <<>>
    /\ out = <<>>
    /\ last = Step("init", None, FALSE, FALSE)

\* serialize_data(v, compression, encryption, public_key) on one side and
\* unserialize_data of its result, with the same flags, on the other:
\* `out` is the datagram, last.res what unserialize_data did with it.
CodecRoundTrip ==
    /\ \E v \in EmittedMappings :
           LET wire == serialize_data(client_config.compression,
                                      client_config.encryption, server_key)
           IN  /\ out' = <<Datagram(server, wire, v)>>
               /\ \E decoded \in unserialize_data(wire, server_config.compression,
                                                  server_config.encryption) :
                      last' = Step("round trip", decoded, FALSE, FALSE)
    /\ UNCHANGED <<server_vars, client_vars, net>>

SpecCodec == CodecInit /\ [][CodecRoundTrip]_vars

(* ------------------------------------------------------------------ *)
(* SpecGarbled: a registered client and its server, under each          *)
(* combination of the flags, with garbled datagrams arriving at both    *)
(* ------------------------------------------------------------------ *)

\* The session after OK REGISTER under either setting of the compression
\* and encryption flags, the same on both sides; with encryption the
\* REGISTER carried the client's key and the OK REGISTER the server's.
GarbledInit ==
    /\ server_config \in [compression : BOOLEAN, encryption : BOOLEAN]
    /\ registry = Put(<<>>, client_cuuid,
                      [host |-> ClientAddress[1], port |-> ClientAddress[2],
                       encryption |-> server_config.encryption])
    /\ encrypted_hosts = IF server_config.encryption
                         THEN Put(<<>>, ClientAddress, client_cuuid) ELSE <<>>
    /\ server_event_uuids = <<>>
    /\ server_listener = NewListener
    /\ minted = {}
    /\ resends = <<>>
    /\ registered = TRUE
    /\ server = SessionServer
    /\ server_key = server_config.encryption
    /\ autoregistering = FALSE
    /\ discovered_servers = <<>>
    /\ client_event_uuids = <<>>
    /\ event_rollbacks = <<>>
    /\ event_notifies = <<>>
    /\ event_confirmations = <<>>
    /\ register_retries = 0
    /\ client_config = server_config
    /\ client_listener = NewListener
    /\ client_minted = {}
    /\ sends = <<>>
    /\ register_sends = 1
    /\ register_first = SessionServer
    /\ net = <<>>
    /\ out = <<>>
    /\ last = Step("init", None, FALSE, FALSE)

\* A datagram the receiver cannot decode with its flags: it was built with
\* the other compression setting (bad text or failed decompression), it is
\* encrypted and the receiver does not decrypt, or the receiver decrypts and
\* it is not encrypted (failed decryption).
Garbled(wire, compression, encryption) ==
    \/ wire.comp # compression
    \/ wire.enc /\ ~encryption
    \/ encryption /\ ~wire.enc /\ ~compression

\* Datagrams that reach the engines from outside the session, built in every
\* way, from the client's address and from another one.
StrayHosts == {ClientAddress, <<"h2", 1>>}
StrayToServer ==
    [wire : Wires,
     data : {Msg("EVENT", client_cuuid, e, "high", None, FALSE) : e \in ClientEuuids}
            \cup {Msg("OK NOTIFY", client_cuuid, e, None, None, FALSE) :
                      e \in NotifyEuuids}]
StrayToClient ==
    [wire : Wires,
     data : {Msg("LEGAL", None, e, "high", None, FALSE) : e \in ClientEuuids}
            \cup {NotifyMsg(e, "d1") : e \in NotifyEuuids}]

\* recvfrom() on the server returns a garbled one.
StrayServerReceive ==
    /\ \E msg \in StrayToServer, host \in StrayHosts :
           /\ Garbled(msg.wire, server_config.compression,
                      host \in DOMAIN encrypted_hosts /\ server_config.encryption)
           /\ handle_message(msg, host, "legal")
    /\ UNCHANGED beyond_server

\* recvfrom() on the client returns a garbled one.
StrayClientReceive ==
    /\ \E msg \in StrayToClient :
           /\ Garbled(msg.wire, client_config.compression,
                      client_config.encryption /\ server_key)
           /\ client_handle_message(msg, SessionServer)
    /\ UNCHANGED beyond_client

\* recvfrom() on the server returns an EVENT of the registered client, built
\* as the client builds it; event_legal returns.
GarbledServerEvent ==
    /\ \E e \in ClientEuuids, verdict \in {"legal"} :
           /\ Len(server_listener.scheduled_calls) < MaxCalls
           /\ handle_message([wire |-> ClientWire,
                              data |-> Msg("EVENT", client_cuuid, e, "high",
                                           None, FALSE)],
                             ClientAddress, verdict)
    /\ UNCHANGED beyond_server

\* The application calls event(event_data, priority="high").
GarbledClientEvent ==
    /\ \E euuid \in ClientEuuids \ client_minted :
           /\ Len(client_listener.scheduled_calls) < MaxCalls
           /\ client_event(euuid, "high")
    /\ UNCHANGED beyond_client

GarbledNext ==
    \/ StrayServerReceive
    \/ StrayClientReceive
    \/ GarbledServerEvent
    \/ GarbledClientEvent
    \/ server_scheduler_wake
    \/ server_scheduler_visit
    \/ server_scheduler_exhausted
    \/ server_scheduler_store
    \/ ServerTick
    \/ client_scheduler_wake
    \/ client_scheduler_visit
    \/ client_scheduler_exhausted
    \/ client_scheduler_store
    \/ ClientTick

SpecGarbled == GarbledInit /\ [][GarbledNext]_vars

(* ------------------------------------------------------------------ *)
(* SpecVersions: clients of an allowed and of another version discover  *)
(* and register                                                         *)
(* ------------------------------------------------------------------ *)

\* NeteriaClient.__init__(version=...): the version each client was
\* constructed with; c1 has the server's, c2 and c3 have another one.
VersionOf(cuuid) == IF cuuid = "c1" THEN "1.0.2" ELSE "0.9"

\* What these clients send: autodiscover's OHAI carries the client's version,
\* register's REGISTER carries the cuuid and, with encryption, the key.
VersionsInbox ==
    [wire : Wires,
     data : {Msg("REGISTER", c, None, None, None, k) : c \in Cuuids, k \in BOOLEAN}
            \cup {Msg("OHAI", c, None, None, VersionOf(c), FALSE) : c \in Cuuids}]

VersionsReceive ==
    \E msg \in VersionsInbox, host \in Addrs :
        /\ handle_message(msg, host, "legal")
        /\ UNCHANGED beyond_server

VersionsNext == VersionsReceive

VersionsInit == RegistryInit /\ ClientInit
SpecVersions == VersionsInit /\ [][VersionsNext]_vars

(* ------------------------------------------------------------------ *)
(* SpecRacy: the server's receive thread and its scheduler thread, the  *)
(* retransmit callback taken in two steps                               *)
(* ------------------------------------------------------------------ *)

\* The two threads share event_uuids without a lock, so the receive thread
\* can run between any two operations of a callback.  The callback is split
\* where that matters first: after `if data["euuid"] in self.event_uuids`.

\* What the registered client sends: its event and the acknowledgement of the
\* adjudication.
RacyInbox ==
    [wire : {PlainWire},
     data : {Msg("EVENT", client_cuuid, e, "normal", None, FALSE) : e \in ClientEuuids}
            \cup {Msg("OK EVENT", client_cuuid, e, None, None, FALSE) :
                      e \in ClientEuuids}]

RacyReceive ==
    /\ \E msg \in RacyInbox :
           /\ Len(server_listener.scheduled_calls) < MaxCalls
           /\ handle_message(msg, ClientAddress, "legal")
    /\ UNCHANGED beyond_server

\* The item under the iterator is due and its euuid is in event_uuids.
retransmit_enters ==
    /\ server_listener.pc = "iter"
    /\ server_listener.idx <= Len(server_listener.scheduled_calls)
    /\ time_reached(server_listener.scheduled_calls[server_listener.idx])
    /\ server_listener.scheduled_calls[server_listener.idx].args.euuid
           \in DOMAIN server_event_uuids

\* time_reached calls retransmit, which evaluates
\* `data["euuid"] in self.event_uuids` to True.
retransmit_checked ==
    /\ retransmit_enters
    /\ server_listener' = [server_listener EXCEPT !.pc = "checked"]
    /\ UNCHANGED <<registry, encrypted_hosts, server_event_uuids, server_config,
                   minted, resends>>
    /\ out' = <<>>
    /\ last' = StepOn("retransmit", "checked",
                      server_listener.scheduled_calls[server_listener.idx].args.euuid,
                      FALSE, FALSE)
    /\ UNCHANGED beyond_server

\* The rest of retransmit from `self.event_uuids[data["euuid"]] += 1` on: with
\* the entry gone the lookup raises KeyError, which nothing in time_reached or
\* scheduler catches, and the scheduler thread ends.
retransmit_rest ==
    /\ server_listener.pc = "checked"
    /\ LET item == server_listener.scheduled_calls[server_listener.idx]
           L == [server_listener EXCEPT !.pc = "iter", !.idx = @ + 1]
       IN  IF item.args.euuid \in DOMAIN server_event_uuids
           THEN retransmit(item.args, L)
           ELSE /\ server_listener' = [server_listener EXCEPT !.pc = "dead"]
                /\ UNCHANGED <<registry, encrypted_hosts, server_event_uuids,
                               server_config, minted, resends>>
                /\ out' = <<>>
                /\ last' = StepOn("retransmit", "KeyError", item.args.euuid,
                                  FALSE, FALSE)
    /\ UNCHANGED beyond_server

\* Every other item: not due, or due with its euuid not in event_uuids.
racy_scheduler_visit ==
    /\ ~retransmit_enters
    /\ server_scheduler_item
    /\ UNCHANGED beyond_server

RacyNext ==
    \/ RacyReceive
    \/ server_scheduler_wake
    \/ racy_scheduler_visit
    \/ retransmit_checked
    \/ retransmit_rest
    \/ server_scheduler_exhausted
    \/ server_scheduler_store
    \/ ServerTick

SpecRacy == SessionInit /\ [][RacyNext]_vars

(* ------------------------------------------------------------------ *)
(* Methods without a branch: both engines of an established session    *)
(* are sent well-formed datagrams whose method they do not dispatch.   *)
(* ------------------------------------------------------------------ *)

\* Methods the server's if/elif chain has no branch for: two that only the
\* client handles, a BYE answer and one nobody knows.
UnhandledByServer ==
    {"OHAI Client", "LEGAL", "BYE EVENT", "PING"}
\* Methods the client's if/elif chain has no branch for: the BYE answers, one
\* that only the server handles and one nobody knows.
UnhandledByClient ==
    {"BYE EVENT", "BYE REGISTER", "OK EVENT", "PING"}
UnhandledToServer ==
    [wire : Wires,
     data : {Msg(m, c, e, None, None, FALSE) :
                 m \in UnhandledByServer, c \in {client_cuuid, "c2"},
                 e \in ClientEuuids}]
UnhandledToClient ==
    [wire : Wires,
     data : {Msg(m, client_cuuid, e, "high", None, FALSE) :
                 m \in UnhandledByClient, e \in ClientEuuids}]

\* recvfrom() on the server returns a datagram it can decode, with such a
\* method.
UnhandledServerReceive ==
    /\ \E msg \in UnhandledToServer, host \in StrayHosts :
           /\ ~Garbled(msg.wire, server_config.compression,
                       host \in DOMAIN encrypted_hosts /\ server_config.encryption)
           /\ handle_message(msg, host, "legal")
    /\ UNCHANGED beyond_server

\* recvfrom() on the client returns a datagram it can decode, with such a
\* method.
UnhandledClientReceive ==
    /\ \E msg \in UnhandledToClient :
           /\ ~Garbled(msg.wire, client_config.compression,
                       client_config.encryption /\ server_key)
           /\ client_handle_message(msg, SessionServer)
    /\ UNCHANGED beyond_client

UnhandledNext ==
    \/ UnhandledServerReceive
    \/ UnhandledClientReceive
    \/ GarbledServerEvent
    \/ GarbledClientEvent
    \/ server_scheduler_wake
    \/ server_scheduler_visit
    \/ server_scheduler_exhausted
    \/ server_scheduler_store
    \/ ServerTick
    \/ client_scheduler_wake
    \/ client_scheduler_visit
    \/ client_scheduler_exhausted
    \/ client_scheduler_store
    \/ ClientTick

UnhandledInit == GarbledInit

SpecUnhandled == UnhandledInit /\ [][UnhandledNext]_vars

(* ------------------------------------------------------------------ *)
(* Claims                                                              *)
(* ------------------------------------------------------------------ *)

\* C1: every euuid in the server's in-flight table has a scheduled retransmit
\* callback for it that is still to be invoked.
C1_InFlightHasCallback ==
    \A e \in DOMAIN server_event_uuids :
        \E c \in PendingCalls(server_listener) : c.args.euuid = e

\* C2: a step that handles an EVENT datagram from a registered client whose
\* euuid is in the in-flight table sends nothing, calls neither event_legal nor
\* event_execute, and leaves the in-flight table (the retry counts) and the
\* schedule as they were.
C2_DuplicateEventSilent ==
    [][last'.op = "EVENT" =>
        \A msg \in ServerEvents, host \in ServerAddrs :
            ( /\ is_registered(msg.data.cuuid, host[1])
              /\ msg.data.euuid \in DOMAIN server_event_uuids
              /\ \E verdict \in Verdicts : handle_message(msg, host, verdict) )
            => /\ out' = <<>>
               /\ ~last'.hook /\ ~last'.exec
               /\ server_event_uuids' = server_event_uuids
               /\ server_listener' = server_listener
      ]_vars

\* C2 witness: an EVENT was dropped as a duplicate of an entry in flight.
C2_Witness ==
    /\ last.op = "EVENT" /\ last.res = "duplicate"
    /\ "e1" \in DOMAIN server_event_uuids
    /\ out = <<>>

\* C3: the retry counter of an in-flight entry equals the number of times
\* retransmit has resent it, which never exceeds max_retries; a retransmit
\* callback that finds the entry with fewer than max_retries resends sends the
\* cached bytes once more to the client's registered address and counts it, and
\* one that finds it with max_retries resends sends nothing and deletes it.
C3_RetryCounterCountsResends ==
    /\ [](\A e \in DOMAIN server_event_uuids :
            /\ server_event_uuids[e] = resends[e]
            /\ resends[e] <= max_retries)
    /\ [][last'.op = "retransmit" =>
            LET data == server_listener.scheduled_calls[server_listener.idx].args
                e == last'.euuid
            IN  (e \in DOMAIN server_event_uuids /\ data.cuuid \in DOMAIN registry)
                => IF server_event_uuids[e] < max_retries
                   THEN /\ out' = <<Datagram(<<registry[data.cuuid].host,
                                               registry[data.cuuid].port>>,
                                             data.response.wire,
                                             data.response.data)>>
                        /\ e \in DOMAIN server_event_uuids'
                        /\ server_event_uuids'[e] = server_event_uuids[e] + 1
                   ELSE /\ out' = <<>>
                        /\ e \notin DOMAIN server_event_uuids'
         ]_vars

\* C3 witness: an entry has been resent max_retries times and is still in
\* flight.
C3_Witness ==
    \E e \in DOMAIN server_event_uuids :
        /\ server_event_uuids[e] = max_retries
        /\ resends[e] = max_retries
        /\ last.op = "retransmit" /\ last.res = "resent"

\* C4: while an event is pending the client has sent its EVENT datagram retry + 1
\* times, never more than max_retries + 1; a retransmit callback that finds the
\* event pending with fewer than max_retries + 1 sends sends the datagram once
\* more to the server and keeps the entry, and one that finds it with
\* max_retries + 1 sends deletes the entry, sends nothing and leaves rollbacks
\* and event_confirmations as they were; an euuid that event() has returned and
\* that is not pending never becomes pending again and no EVENT datagram is
\* sent for it.
C4_EventSentMaxRetriesPlusOne ==
    /\ [](\A e \in DOMAIN client_event_uuids :
            /\ sends[e] = client_event_uuids[e].retry + 1
            /\ sends[e] <= max_retries + 1)
    /\ [][(last'.op = "retransmit" /\ last'.euuid \in DOMAIN client_event_uuids) =>
            LET e == last'.euuid
            IN  IF sends[e] < max_retries + 1
                THEN /\ out' = <<Datagram(server, ClientWire,
                                     Msg("EVENT", client_cuuid, e,
                                         client_event_uuids[e].priority, None, FALSE))>>
                     /\ e \in DOMAIN client_event_uuids'
                     /\ sends'[e] = sends[e] + 1
                ELSE /\ out' = <<>>
                     /\ e \notin DOMAIN client_event_uuids'
                     /\ event_rollbacks' = event_rollbacks
                     /\ event_confirmations' = event_confirmations
         ]_vars
    /\ [][\A e \in client_minted \ DOMAIN client_event_uuids :
            /\ e \notin DOMAIN client_event_uuids'
            /\ e \in DOMAIN sends => sends'[e] = sends[e]
            /\ \A i \in DOMAIN out' :
                   ~(out'[i].data.method = "EVENT" /\ out'[i].data.euuid = e)
         ]_vars

\* C4 witness: the callback after the last retransmit has deleted e1, which was
\* sent max_retries + 1 times and is in neither rollbacks nor confirmations.
C4_Witness ==
    /\ last.op = "retransmit" /\ last.res = "deleted" /\ last.euuid = "e1"
    /\ sends["e1"] = max_retries + 1
    /\ "e1" \notin DOMAIN client_event_uuids
    /\ "e1" \notin DOMAIN event_rollbacks \cup DOMAIN event_confirmations

\* C11: a step that handles LEGAL or ILLEGAL for an euuid that is pending
\* removes the euuid from event_uuids; LEGAL with priority high stores the
\* packet in event_confirmations and leaves event_rollbacks alone, LEGAL with
\* any other priority changes neither, ILLEGAL stores the packet in
\* event_rollbacks and leaves event_confirmations alone; and a retransmit
\* callback for an euuid that is not pending sends nothing, changes no table
\* and schedules nothing.
C11_AdjudicationSettlesPending ==
    /\ [][(last'.op \in {"LEGAL", "ILLEGAL"}
             /\ last'.euuid \in DOMAIN client_event_uuids) =>
            LET e == last'.euuid
                packet == client_event_uuids[e]
            IN  /\ e \notin DOMAIN client_event_uuids'
                /\ IF last'.op = "LEGAL" /\ last'.priority = "high"
                   THEN /\ event_confirmations' = Put(event_confirmations, e, packet)
                        /\ event_rollbacks' = event_rollbacks
                   ELSE IF last'.op = "LEGAL"
                   THEN /\ event_confirmations' = event_confirmations
                        /\ event_rollbacks' = event_rollbacks
                   ELSE /\ event_rollbacks' = Put(event_rollbacks, e, packet)
                        /\ event_confirmations' = event_confirmations
         ]_vars
    /\ [][(last'.op = "retransmit" /\ last'.euuid \in ClientEuuids
             /\ last'.euuid \notin DOMAIN client_event_uuids) =>
            /\ out' = <<>>
            /\ client_event_uuids' = client_event_uuids
            /\ event_confirmations' = event_confirmations
            /\ event_rollbacks' = event_rollbacks
            /\ sends' = sends
            /\ Len(client_listener'.scheduled_calls) =
                   Len(client_listener.scheduled_calls)
         ]_vars

\* C11 witness: e1 was sent with priority high, adjudicated LEGAL and moved to
\* event_confirmations, and its retransmit callback has run and sent nothing.
C11_Witness ==
    /\ last.op = "retransmit" /\ last.res = "no entry" /\ last.euuid = "e1"
    /\ "e1" \in DOMAIN event_confirmations
    /\ "e1" \notin DOMAIN client_event_uuids
    /\ out = <<>>

\* C12: the step that handles a NOTIFY datagram, whatever the client has
\* stored before and however often the same euuid has arrived, stores the
\* datagram's event_data under its euuid in event_notifies, leaves the entries
\* of the other euuids as they were, and sends one OK NOTIFY with the same
\* euuid to the sender.
C12_NotifyStoredAndAcknowledged ==
    [][\A msg \in NotifyInbox, host \in ClientServers :
          (msg.data.method = "NOTIFY" /\ last'.op = "NOTIFY"
             /\ client_handle_message(msg, host)) =>
            /\ event_notifies' =
                   [e \in DOMAIN event_notifies \cup {msg.data.euuid} |->
                       IF e = msg.data.euuid THEN msg.data.event_data
                                             ELSE event_notifies[e]]
            /\ Len(out') = 1
            /\ out'[1].to = host
            /\ out'[1].data.method = "OK NOTIFY"
            /\ out'[1].data.euuid = msg.data.euuid
      ]_vars

\* C12 witness: n1 has arrived again with n1 and n2 already stored, and was
\* acknowledged.
C12_Witness ==
    /\ last.op = "NOTIFY" /\ last.euuid = "n1"
    /\ DOMAIN event_notifies = ClientNotifyEuuids
    /\ event_notifies["n1"] = "d2" /\ event_notifies["n2"] = "d1"
    /\ Len(out) = 1 /\ out[1].data.method = "OK NOTIFY"

\* C13: the step that handles a decoded EVENT whose cuuid is not in the
\* registry, or is registered with another IP than the one the datagram came
\* from, sends one BYE EVENT to the sender, does not call event_legal and
\* leaves the in-flight table and the schedule as they were; and event_legal
\* is only called for an EVENT whose cuuid is in the registry.
C13_UnregisteredEventRefused ==
    [][last'.op = "EVENT" =>
        \A msg \in AdjudicationEvents, host \in ServerAddrs :
            (\E verdict \in Verdicts : handle_message(msg, host, verdict)) =>
                /\ ~is_registered(msg.data.cuuid, host[1]) =>
                       /\ Len(out') = 1
                       /\ out'[1].to = host
                       /\ out'[1].data.method = "BYE EVENT"
                       /\ ~last'.hook
                       /\ server_event_uuids' = server_event_uuids
                       /\ server_listener' = server_listener
                /\ last'.hook => msg.data.cuuid \in DOMAIN registry
      ]_vars

\* C14: when event_legal returns false for an EVENT, the step sends one
\* ILLEGAL that carries the euuid and the priority of the EVENT and does not
\* start event_execute; when it returns true, the step sends one LEGAL that
\* carries them and starts event_execute.
C14_VerdictDecidesReplyAndExecution ==
    [][(last'.op = "EVENT" /\ last'.verdict \in {"legal", "illegal"}) =>
            /\ Len(out') = 1
            /\ out'[1].data.method =
                   (IF last'.verdict = "legal" THEN "LEGAL" ELSE "ILLEGAL")
            /\ out'[1].data.euuid = last'.euuid
            /\ out'[1].data.priority = last'.priority
            /\ last'.exec = (last'.verdict = "legal")
      ]_vars

\* C14 witness: an event of priority high was found illegal and answered
\* ILLEGAL without being executed.
C14_Witness ==
    /\ last.op = "EVENT" /\ last.verdict = "illegal" /\ last.priority = "high"
    /\ ~last.exec
    /\ Len(out) = 1 /\ out[1].data.method = "ILLEGAL"
    /\ out[1].data.priority = "high"

\* C15: the retransmit callback that observes retry exhaustion for an entry
\* (and deletes it from the in-flight table) removes the registry entry of the
\* client the entry is attributed to.
C15_ExhaustionRemovesRegistration ==
    [][(last'.op = "retransmit" /\ last'.res = "deleted") =>
            LET data == server_listener.scheduled_calls[server_listener.idx].args
            IN  data.cuuid \notin DOMAIN registry'
      ]_vars

\* C16: the step that handles BYE REGISTER leaves registered False, and a
\* retransmit callback that runs next after it, with no register() call in
\* between, sends no REGISTER and schedules nothing.
C16_ByeRegisterGivesUp ==
    [][/\ last'.op = "BYE REGISTER" => (~registered /\ ~registered')
       /\ (last.op = "BYE REGISTER" /\ last'.op = "retransmit") =>
            /\ out' = <<>>
            /\ Len(client_listener'.scheduled_calls) =
                   Len(client_listener.scheduled_calls)
      ]_vars

\* C17: counted from a register(address, retry=True) call, the client sends
\* REGISTER at most max_retries + 1 times: the call sends one, and each callback
\* that finds the client unregistered with retries left sends exactly one more,
\* to the address of the call, and schedules the next callback. A callback of
\* an unregistered client stops only when max_retries + 1 have been sent, and
\* then silently: it sends nothing and schedules nothing. A callback that finds
\* registered = TRUE sends nothing either.
C17_RegisterSentMaxRetriesPlusOne ==
    /\ [](register_sends <= max_retries + 1)
    /\ [][last'.op = "retransmit" =>
            /\ last'.res = "REGISTER resent" =>
                   /\ ~registered
                   /\ Len(out') = 1
                   /\ out'[1].data.method = "REGISTER"
                   /\ out'[1].to \in ClientServers
                   /\ register_sends' = register_sends + 1
                   /\ register_retries' = register_retries + 1
            /\ last'.res = "REGISTER not resent" =>
                   /\ registered \/ register_sends = max_retries + 1
                   /\ out' = <<>>
                   /\ register_sends' = register_sends
                   /\ PendingCalls(client_listener') \subseteq
                          PendingCalls(client_listener)
            /\ registered => last'.res # "REGISTER resent"
         ]_vars

C17_Witness ==
    /\ last.op = "retransmit"
    /\ last.res = "REGISTER not resent"
    /\ ~registered
    /\ register_sends = max_retries + 1
    /\ register_retries = max_retries

\* C18: a REGISTER the server decodes whose cuuid is already in the registry
\* is answered OK REGISTER, and the entry of that cuuid then holds the address
\* the REGISTER came from while the registry has as many entries as before;
\* this in every registry state, a full registry included.
C18_KnownClientMovesAddress ==
    [][\A msg \in RegistryInbox, host \in Addrs :
          (/\ msg.data.method = "REGISTER"
           /\ msg.data.cuuid \in DOMAIN registry
           /\ Decodes(msg, host)
           /\ handle_message(msg, host, "legal")) =>
              /\ last'.res = "OK REGISTER"
              /\ Len(out') = 1
              /\ out'[1].to = host
              /\ out'[1].data.method = "OK REGISTER"
              /\ registry'[msg.data.cuuid].host = host[1]
              /\ registry'[msg.data.cuuid].port = host[2]
              /\ DOMAIN registry' = DOMAIN registry
      ]_vars

\* C19: the server answers an OHAI it decodes with one datagram to the sender:
\* OHAI Client, carrying the server's version and name, when the OHAI's
\* version is in allowed_versions, and BYE REGISTER otherwise. The step leaves
\* the registry and the in-flight table as they were. The client that receives
\* a BYE REGISTER changes nothing, so its registered flag stays as it was, and
\* the flag only becomes True on an OK REGISTER.
C19_OhaiAnswered ==
    [][/\ last'.op = "OHAI" =>
            /\ Len(out') = 1
            /\ out'[1].data \in
                   {OhaiClientMsg(version, server_name),
                    Msg("BYE REGISTER", None, None, None, None, FALSE)}
            /\ registry' = registry
            /\ server_event_uuids' = server_event_uuids
       /\ \A msg \in DiscoveryInbox, host \in DiscoveryAddrs :
              (/\ msg.data.method = "OHAI"
               /\ Decodes(msg, host)
               /\ handle_message(msg, host, "legal")) =>
                  /\ last'.op = "OHAI"
                  /\ out'[1].to = host
                  /\ (out'[1].data.method = "OHAI Client") =
                         (msg.data.version \in allowed_versions)
       /\ last'.op = "BYE REGISTER" =>
            /\ UNCHANGED client_vars
            /\ out' = <<>>
       /\ (~registered /\ registered') => last'.op = "OK REGISTER"
      ]_vars

\* C19 witness: the client, which has discovered a server by an OHAI Client,
\* has just received the BYE REGISTER a server with a non-empty registry sent,
\* and is not registered.
C19_Witness ==
    /\ last.op = "BYE REGISTER"
    /\ ~registered
    /\ discovered_servers # <<>>
    /\ registry # <<>>

\* C20: every OHAI Client the client decodes adds the address it came from to
\* discovered_servers, with the version and name it carries. If the client is
\* auto-registering, the step is register(source, retry=True), once: one
\* REGISTER to the source, retries reset, a callback for the source handed to
\* call_later, and the flag cleared. Otherwise the step sends nothing, schedules nothing
\* and leaves the retries alone. Only autodiscover sets the flag, so the OHAI
\* Clients that follow the first start no registration.
C20_FirstOhaiClientRegisters ==
    [][/\ last'.op = "OHAI Client" =>
            \A host \in DiscoveryServers :
               (/\ DiscoveryAnswered
                /\ client_handle_message(DiscoveryAnswer, host)) =>
                  /\ discovered_servers' =
                         Put(discovered_servers, host, <<version, server_name>>)
                  /\ IF autoregistering
                     THEN /\ Len(out') = 1
                          /\ out'[1].to = host
                          /\ out'[1].data.method = "REGISTER"
                          /\ register_retries' = 0
                          /\ register_sends' = 1
                          /\ client_listener' =
                                 call_later(client_listener, timeout,
                                            RegisterCall(host))
                          /\ ~autoregistering'
                          /\ last'.res = "registering"
                     ELSE /\ out' = <<>>
                          /\ client_listener' = client_listener
                          /\ register_retries' = register_retries
                          /\ ~autoregistering'
                          /\ last'.res = "noted"
       /\ (~autoregistering /\ autoregistering') => last'.op = "autodiscover"
      ]_vars

\* C20 witness: both servers have answered; the first OHAI Client started the
\* one registration there has been, the second, just handled, started none.
C20_Witness ==
    /\ last.op = "OHAI Client"
    /\ last.res = "noted"
    /\ DOMAIN discovered_servers = DiscoveryServers
    /\ register_sends = 1
    /\ register_first = SessionServer
    /\ ~autoregistering
    /\ ~registered

\* C21: notify(cuuid, event_data) for a registered cuuid, with a datagram the
\* listener accepts, sends one NOTIFY with a fresh euuid to the address stored
\* for the cuuid, records the euuid in flight with retry count 0 and hands the
\* retransmit callback to call_later with the timeout. A retransmit callback
\* for a notification resends the NOTIFY to the stored address only while the
\* entry is in flight with fewer than max_retries resends; one that finds it
\* with max_retries resends deletes it and sends nothing, and one that finds
\* no entry (an OK NOTIFY deleted it, or an earlier callback did) sends
\* nothing and reschedules nothing.
C21_NotifySentAndResent ==
    [][/\ last'.op = "notify" =>
            \A cuuid \in EventCuuids, euuid \in NotifyEuuids \ minted :
               (cuuid \in DOMAIN registry /\ notify(cuuid, euuid, FALSE)) =>
                  /\ last'.res = "sent"
                  /\ last'.euuid = euuid
                  /\ Len(out') = 1
                  /\ out'[1].to = <<registry[cuuid].host, registry[cuuid].port>>
                  /\ out'[1].data.method = "NOTIFY"
                  /\ out'[1].data.euuid = euuid
                  /\ euuid \notin DOMAIN server_event_uuids
                  /\ server_event_uuids' = Put(server_event_uuids, euuid, 0)
                  /\ server_listener' =
                         call_later(server_listener, timeout,
                             [euuid |-> euuid, cuuid |-> cuuid,
                              response |-> [wire |-> out'[1].wire,
                                            data |-> out'[1].data]])
       /\ (last'.op = "retransmit" /\ last'.euuid \in NotifyEuuids) =>
            LET e == last'.euuid
                data == server_listener.scheduled_calls[server_listener.idx].args
            IN  IF e \in DOMAIN server_event_uuids /\ resends[e] < max_retries
                THEN /\ last'.res = "resent"
                     /\ out' = <<Datagram(<<registry[data.cuuid].host,
                                            registry[data.cuuid].port>>,
                                          data.response.wire, data.response.data)>>
                     /\ out'[1].data.method = "NOTIFY"
                     /\ out'[1].data.euuid = e
                     /\ resends' = Put(resends, e, resends[e] + 1)
                     /\ Len(server_listener'.scheduled_calls) =
                            Len(server_listener.scheduled_calls) + 1
                ELSE /\ last'.res # "resent"
                     /\ out' = <<>>
                     /\ e \notin DOMAIN server_event_uuids'
                     /\ server_listener'.scheduled_calls =
                            server_listener.scheduled_calls
      ]_vars

\* C21 witness: the notification n1 has been resent max_retries times, the
\* last time just now.
C21_Witness ==
    /\ last.op = "retransmit"
    /\ last.res = "resent"
    /\ last.euuid = "n1"
    /\ "n1" \in DOMAIN resends
    /\ resends["n1"] = max_retries
    /\ Len(out) = 1
    /\ out[1].data.method = "NOTIFY"

C23_EntriesEventuallyDestroyed ==
    \A e \in ClientEuuids :
        /\ (e \in DOMAIN server_event_uuids) ~> (e \notin DOMAIN server_event_uuids)
        /\ (e \in DOMAIN client_event_uuids) ~> (e \notin DOMAIN client_event_uuids)

\* C24: for each of the four combinations of the compression and encryption
\* flags, used by both sides, and a sender that holds the receiver's public
\* key, unserialize_data applied to what serialize_data built from a mapping
\* the engine emits returns that mapping.
C24_RoundTrip ==
    last.op = "round trip" => last.res = "ok"

C26_MismatchNeverAdmitted ==
    \A cuuid \in DOMAIN registry : VersionOf(cuuid) \in allowed_versions

\* C27: after every step the retry count of every entry of the server's
\* in-flight table and of the client's pending events is at most max_retries,
\* and the callback step that finds an entry with max_retries retries removes
\* the entry in that step, on the server and on the client.
C27_RetryCountsBounded ==
    /\ [](/\ \A e \in DOMAIN server_event_uuids :
                server_event_uuids[e] <= max_retries
          /\ \A e \in DOMAIN client_event_uuids :
                client_event_uuids[e].retry <= max_retries)
    /\ [][last'.op = "retransmit" =>
            /\ \A e \in DOMAIN server_event_uuids :
                  (/\ server_listener' # server_listener
                   /\ last'.euuid = e
                   /\ server_event_uuids[e] = max_retries)
                      => e \notin DOMAIN server_event_uuids'
            /\ \A e \in DOMAIN client_event_uuids :
                  (/\ client_listener' # client_listener
                   /\ last'.euuid = e
                   /\ client_event_uuids[e].retry = max_retries)
                      => e \notin DOMAIN client_event_uuids'
         ]_vars

\* A callback of the server has just removed e1 for exhaustion while the
\* client holds it with max_retries retries.
C27_Witness ==
    /\ last.op = "retransmit" /\ last.res = "deleted" /\ last.euuid = "e1"
    /\ "e1" \notin DOMAIN server_event_uuids
    /\ "e1" \in DOMAIN client_event_uuids
    /\ client_event_uuids["e1"].retry = max_retries

\* C28: once an adjudication or a retransmit callback has left the retry count
\* k for an euuid of a client, every later adjudication and retransmit
\* callback for that euuid finds and leaves a count of at least k, whatever
\* EVENT datagrams, acknowledgements and scheduler callbacks come in between.
C28_RetryCountsMonotonic ==
    \A e \in ClientEuuids, k \in 1..max_retries :
        []((e \in DOMAIN server_event_uuids /\ server_event_uuids[e] = k) =>
              [](e \in DOMAIN server_event_uuids => server_event_uuids[e] >= k))

\* C29: a retransmit callback that has passed its membership check for an
\* euuid finds the entry still in the in-flight map when it goes on to
\* increment, read or delete it: the receive thread's handling of an
\* acknowledgement does not remove the entry in between, so that no callback
\* fails and ends the scheduler thread.
C29_MutationsSerialized ==
    /\ server_listener.pc = "checked" =>
           server_listener.scheduled_calls[server_listener.idx].args.euuid
               \in DOMAIN server_event_uuids
    /\ server_listener.pc # "dead"

\* C30: a callback registered with call_later stays in the schedule until the
\* scheduler has invoked it, also when the receive thread or a running
\* callback registers it while a scheduler pass is in progress: the step that
\* ends a pass removes no callback the pass has not visited (a callback that
\* is removed without having been invoked is never invoked).
C30_CallbackInvokedOnce ==
    [][(server_listener.pc = "store" /\ server_listener'.pc = "sleep") =>
          \A i \in DOMAIN server_listener.scheduled_calls :
              i >= server_listener.idx =>
                  \E j \in DOMAIN server_listener'.scheduled_calls :
                      server_listener'.scheduled_calls[j] =
                          server_listener.scheduled_calls[i]
      ]_vars

\* C31: a retransmit callback that the scheduler invokes for an euuid whose
\* record is no longer in the table (acknowledged or exhausted) sends no
\* datagram, schedules no further callback and changes no table, on the
\* server and on the client.
C31_StaleCallbackNoOp ==
    [][/\ (/\ server_listener.pc = "iter"
           /\ server_listener.idx <= Len(server_listener.scheduled_calls)
           /\ server_listener'.idx = server_listener.idx + 1
           /\ time_reached(server_listener.scheduled_calls[server_listener.idx])
           /\ server_listener.scheduled_calls[server_listener.idx].args.euuid
                  \notin DOMAIN server_event_uuids) =>
              /\ out' = <<>>
              /\ server_listener'.scheduled_calls = server_listener.scheduled_calls
              /\ server_listener'.kept = server_listener.kept
              /\ UNCHANGED <<registry, encrypted_hosts, server_event_uuids>>
       /\ (/\ client_listener.pc = "iter"
           /\ client_listener.idx <= Len(client_listener.scheduled_calls)
           /\ client_listener'.idx = client_listener.idx + 1
           /\ time_reached(client_listener.scheduled_calls[client_listener.idx])
           /\ client_listener.scheduled_calls[client_listener.idx].args.method = "EVENT"
           /\ client_listener.scheduled_calls[client_listener.idx].args.euuid
                  \notin DOMAIN client_event_uuids) =>
              /\ out' = <<>>
              /\ client_listener'.scheduled_calls = client_listener.scheduled_calls
              /\ client_listener'.kept = client_listener.kept
              /\ UNCHANGED <<client_event_uuids, event_rollbacks, event_notifies,
                             event_confirmations, registered, register_retries>>
      ]_vars

\* The client's callback for e1 has just found the event confirmed and gone,
\* after the server's entry was acknowledged and its callback had nothing left
\* to do either.
C31_Witness ==
    /\ last.op = "retransmit" /\ last.res = "no entry" /\ last.euuid = "e1"
    /\ "e1" \in DOMAIN event_confirmations
    /\ "e1" \notin DOMAIN client_event_uuids
    /\ "e1" \notin DOMAIN server_event_uuids
    /\ client_listener.pc = "iter" /\ client_listener.idx > 1
    /\ server_listener.scheduled_calls = <<>>

\* C32: with encryption enabled on the server, a REGISTER that carries the key
\* of a client whose earlier REGISTER from the same address was accepted,
\* built as the client builds every REGISTER (never encrypted), is decoded by
\* the server, refreshes the entry and is answered with OK REGISTER to that
\* address.
C32_RetransmittedRegisterAccepted ==
    [][\A msg \in RegistryInbox, host \in Addrs :
          (/\ server_config.encryption
           /\ msg.data.method = "REGISTER" /\ msg.data.encryption
           /\ msg.wire = serialize_data(server_config.compression, FALSE, FALSE)
           /\ host \in DOMAIN encrypted_hosts
           /\ encrypted_hosts[host] = msg.data.cuuid
           /\ msg.data.cuuid \in DOMAIN registry
           /\ ~LimitExceeded
           /\ handle_message(msg, host, "legal")) =>
              /\ last'.res = "OK REGISTER"
              /\ Len(out') = 1
              /\ out'[1].to = host
              /\ out'[1].data.method = "OK REGISTER"
              /\ registry'[msg.data.cuuid].host = host[1]
              /\ registry'[msg.data.cuuid].port = host[2]
      ]_vars

\* C33: once the client's registered flag is true every later step leaves it
\* true, and whenever the flag is true the client has sent at least one
\* REGISTER.
C33_RegisteredTerminal ==
    /\ [][registered => registered']_vars
    /\ [](registered => register_sends >= 1)

\* C34: a retransmitted REGISTER goes to the address its own callback carries
\* (data["address"]) and the next callback carries that address again; the
\* address of the first REGISTER of the attempt plays no part. So when a new
\* attempt (register(retry=True) after a second discovery answer) starts
\* while the callback of an older one is still scheduled, the older callback
\* sends a REGISTER of the new attempt to the older address.
C34_RetryTargetsCallbackAddress ==
    [][(last'.op = "retransmit" /\ last'.res = "REGISTER resent") =>
           /\ client_listener.pc = "iter"
           /\ client_listener.idx <= Len(client_listener.scheduled_calls)
           /\ LET item == client_listener.scheduled_calls[client_listener.idx]
              IN  /\ item.args.method = "REGISTER"
                  /\ Len(out') = 1
                  /\ out'[1].data.method = "REGISTER"
                  /\ out'[1].to = item.args.address
                  /\ [ts |-> timeout, args |-> RegisterCall(item.args.address)]
                         \in PendingCalls(client_listener')
           /\ register_first' = register_first
      ]_vars

\* C34 witness: the REGISTER just retransmitted went to another address than
\* the first REGISTER of the attempt it is counted in.
C34_Witness ==
    /\ last.op = "retransmit"
    /\ last.res = "REGISTER resent"
    /\ register_first # NoAddress
    /\ register_sends >= 2
    /\ Len(out) = 1
    /\ out[1].data.method = "REGISTER"
    /\ out[1].to # register_first

\* C35: a datagram that decodes and whose method the receiving engine has no
\* branch for is ignored: a step that sends something or changes a table, a
\* flag or a schedule of either engine is never the handling of such a
\* datagram, whoever sent it and whatever is in flight at that moment.
C35_UnhandledIgnored ==
    [][(out' # <<>> \/ server_vars' # server_vars \/ client_vars' # client_vars) =>
           /\ \A msg \in UnhandledToServer, host \in StrayHosts :
                  ~(/\ ~Garbled(msg.wire, server_config.compression,
                                host \in DOMAIN encrypted_hosts
                                    /\ server_config.encryption)
                    /\ handle_message(msg, host, "legal"))
           /\ \A msg \in UnhandledToClient :
                  ~(/\ ~Garbled(msg.wire, client_config.compression,
                                client_config.encryption /\ server_key)
                    /\ client_handle_message(msg, SessionServer))
      ]_vars

\* C35 witness: the client has just ignored a BYE EVENT while events were in
\* flight and retransmissions were scheduled on both sides.
C35_Witness ==
    /\ last.op = "BYE EVENT"
    /\ last.res = "ignored"
    /\ out = <<>>
    /\ "e1" \in DOMAIN client_event_uuids
    /\ "e1" \in DOMAIN server_event_uuids
    /\ PendingCalls(client_listener) # {}
    /\ PendingCalls(server_listener) # {}

\* C36: event_execute is started at most once per euuid. An EVENT whose euuid
\* is in event_uuids never starts it, and neither does an EVENT whose euuid was
\* adjudicated LEGAL before and whose entry is gone again. That an euuid was
\* adjudicated LEGAL before is read off the schedule: the callback that event()
\* scheduled with the LEGAL answer, after it had started event_execute, is
\* still there.
C36_AdjudicatedLegal(e) ==
    \E call \in {server_listener.scheduled_calls[i] :
                     i \in DOMAIN server_listener.scheduled_calls}
                \cup {server_listener.kept[i] : i \in DOMAIN server_listener.kept} :
        /\ call.args.euuid = e
        /\ call.args.response.data.method = "LEGAL"
C36_ExecutedAtMostOnce ==
    [][(last'.op = "EVENT" /\ last'.exec) =>
           /\ last'.euuid \notin DOMAIN server_event_uuids
           /\ ~C36_AdjudicatedLegal(last'.euuid)
      ]_vars

\* C37: for every euuid in event_uuids at most one retransmit callback is
\* pending: scheduled and not yet visited by the pass in progress, or kept by
\* it for the next one.
C37_PendingFor(e) ==
    LET L == server_listener
        kept == {i \in DOMAIN L.kept : L.kept[i].args.euuid = e}
        ahead == {i \in DOMAIN L.scheduled_calls :
                      /\ L.scheduled_calls[i].args.euuid = e
                      /\ L.pc = "iter" => i >= L.idx}
    IN  CASE L.pc = "sleep" -> Cardinality(ahead)
          [] L.pc = "iter"  -> Cardinality(kept) + Cardinality(ahead)
          [] L.pc = "store" -> Cardinality(kept)
C37_OnePendingCallback ==
    \A e \in DOMAIN server_event_uuids : C37_PendingFor(e) <= 1

\* C38: an acknowledgement removes an in-flight entry only when it comes from
\* the client the entry is attributed to, the cuuid its retransmit callback
\* carries. An OK EVENT / OK NOTIFY with the euuid of an entry that carries
\* another cuuid, or comes from a source that is not registered under its
\* cuuid, leaves the entry in place.
C38_Attributed(cuuid, euuid) ==
    \E call \in {server_listener.scheduled_calls[i] :
                     i \in DOMAIN server_listener.scheduled_calls}
                \cup {server_listener.kept[i] : i \in DOMAIN server_listener.kept} :
        call.args.euuid = euuid /\ call.args.cuuid = cuuid
C38_AckOnlyFromOwner ==
    [][\A msg \in ServerInbox, host \in ServerAddrs :
           (/\ msg.data.method \in {"OK EVENT", "OK NOTIFY"}
            /\ msg.data.euuid \in DOMAIN server_event_uuids
            /\ \E c \in Cuuids : C38_Attributed(c, msg.data.euuid)
            /\ \/ ~C38_Attributed(msg.data.cuuid, msg.data.euuid)
               \/ ~is_registered(msg.data.cuuid, host[1])
            /\ handle_message(msg, host, "legal"))
           => msg.data.euuid \in DOMAIN server_event_uuids'
      ]_vars

\* C39: a notify() that fails, because the cuuid is not in the registry or
\* because send_datagram refuses the oversize NOTIFY, leaves the server as it
\* was: the tables and the schedule are unchanged (no entry for the minted
\* euuid, no callback) and nothing is sent.
C39_FailedNotifyLeavesNoTrace ==
    [][(last'.op = "notify" /\ last'.res \in {"KeyError", "too large"}) =>
           /\ UNCHANGED <<registry, encrypted_hosts, server_event_uuids,
                          server_listener>>
           /\ last'.euuid \notin DOMAIN server_event_uuids'
           /\ out' = <<>>
      ]_vars

\* C5: a step in which the client's registered flag changes from False to True
\* is a step that handles a received OK REGISTER datagram.
C5_RegisteredOnlyByOkRegister ==
    [][(~registered /\ registered') => last'.op = "OK REGISTER"]_vars

\* C5 witness: the client has been registered by an OK REGISTER after it sent a
\* REGISTER.
C5_Witness ==
    /\ registered /\ server \in ClientServers
    /\ last.op = "OK REGISTER" /\ last.res = "registered"

\* C6: a call of event() made while registered is False returns False, sends no
\* datagram, adds no entry to event_uuids and schedules no callback.
C6_UnregisteredEventDropped ==
    [][(last'.op = "event" /\ ~registered) =>
            /\ last'.res = "False"
            /\ out' = <<>>
            /\ client_event_uuids' = client_event_uuids
            /\ client_listener' = client_listener
            /\ sends' = sends
      ]_vars

\* C6 witness: event() has been called on an unregistered client and was
\* dropped.
C6_Witness ==
    /\ ~registered
    /\ last.op = "event" /\ last.res = "False" /\ last.euuid = "e1"
    /\ client_event_uuids = <<>> /\ out = <<>>

\* C10: the step that handles a received LEGAL or ILLEGAL datagram sends one
\* OK EVENT that carries the euuid of the datagram.
C10_AdjudicationAcknowledged ==
    last.op \in {"LEGAL", "ILLEGAL"} =>
        /\ Len(out) = 1
        /\ out[1].data.method = "OK EVENT"
        /\ out[1].data.euuid = last.euuid

\* C7: a step that handles OK EVENT or OK NOTIFY for an euuid (last'.euuid)
\* that is not in the in-flight table changes neither the registry, the in-flight table,
\* encrypted_hosts nor the schedule, and sends nothing; and after any step that
\* handles an acknowledgement its euuid is not in the in-flight table, so that
\* the same acknowledgement received again changes nothing.
C7_UnknownAckIsNoOp ==
    [][last'.op \in {"OK EVENT", "OK NOTIFY"} =>
        /\ last'.euuid \notin DOMAIN server_event_uuids'
        /\ last'.euuid \notin DOMAIN server_event_uuids
           => /\ registry' = registry
              /\ server_event_uuids' = server_event_uuids
              /\ encrypted_hosts' = encrypted_hosts
              /\ server_listener' = server_listener
              /\ out' = <<>>
      ]_vars

\* C7 witness: an acknowledgement of an euuid that was not in flight has been
\* handled while another entry was in flight.
C7_Witness ==
    /\ last.op = "OK EVENT" /\ last.res = "KeyError"
    /\ server_event_uuids # <<>>

\* C8: after any sequence of REGISTER messages the registry holds at most
\* registration_limit entries.
C8_RegistryWithinLimit ==
    Cardinality(DOMAIN registry) <= registration_limit

\* C9: the registry never holds more than registration_limit + 1 entries, and
\* once it holds registration_limit + 1 every REGISTER the server decodes
\* (last'.op = "REGISTER") is answered with one BYE REGISTER and leaves the
\* registry and encrypted_hosts as they were.
C9_RegistryAtMostOneOver ==
    /\ [](Cardinality(DOMAIN registry) <= registration_limit + 1)
    /\ [][( /\ Cardinality(DOMAIN registry) = registration_limit + 1
            /\ last'.op = "REGISTER" )
          => /\ registry' = registry
             /\ encrypted_hosts' = encrypted_hosts
             /\ Len(out') = 1
             /\ out'[1].data = Msg("BYE REGISTER", None, None, None, None, FALSE)
         ]_vars

\* C9 witness: the registry is one over the limit and the last REGISTER was
\* turned away.
C9_Witness ==
    /\ Cardinality(DOMAIN registry) = registration_limit + 1
    /\ last.op = "REGISTER" /\ last.res = "BYE REGISTER"
    /\ Len(out) = 1 /\ out[1].data.method = "BYE REGISTER"


====
